---- MODULE Spec2Model ----
(***************************************************************************)
(* CertifyFast: batch generation of PDF certificates from a template with  *)
(* {{placeholder}} markers.  The module holds several specifications over  *)
(* one set of variables:                                                   *)
(*   Spec         the analyze() / generate() request handlers of app.py    *)
(*   SpecMatch    _compute_mapping and the col_lookup of                   *)
(*                generate_certificate                                     *)
(*   SpecSign     sign_certificate / verify_signature                      *)
(*   SpecGen      generate_certificate, one row on one template            *)
(*   SpecExtract  extract_placeholders                                     *)
(*   SpecConc     the row loop of two generate() requests running at once  *)
(*   SpecLedger   the certificates table of database.py                    *)
(*   SpecAlign    _detect_alignment, one call on one page                  *)
(*   SpecFields   the fields generate() signs, for one row                 *)
(*   SpecArchive  the entries generate() writes into the archive of a batch *)
(*   SpecTemplate extract_placeholders on a template, then                 *)
(*                generate_certificate with the marker map it returned     *)
(*   SpecIssue    signing and storing a row's tuple, reading it back and   *)
(*                verifying it                                             *)
(*   SpecExample  the batch loop of generate() with generate_certificate   *)
(*                run on each row of a two-row data file                   *)
(* Each specification moves its own group of variables and keeps the other *)
(* groups at their idle values.                                            *)
(***************************************************************************)
EXTENDS Integers, Sequences, FiniteSets, TLC

(***************************************************************************)
(* Bounds of the model.                                                    *)
(***************************************************************************)
MaxRows == 3
MaxMarkers == 2
MaxCols == 2
MaxPages == 2
MaxConcRows == 1

(***************************************************************************)
(* State of the request handlers (src/app.py).                             *)
(***************************************************************************)
VARIABLES
    pc,             \* position inside analyze() / generate()
    sid,            \* session_id of the generate() request
    uploads,        \* session files present under UPLOADS: subset of {"template","data"}
    aresp,          \* response of analyze()
    placeholders_n, \* len(placeholders) as seen by generate()
    data_file,      \* the data file as load_data last read it
    nrows,          \* len(df)
    idx,            \* loop variable of the batch loop (0-based)
    step,           \* position inside the body of the batch loop
    attempted,      \* rows whose loop body was entered, in order (history)
    raised,         \* rows in which an exception was raised (history)
    errors,         \* the errors list
    success_count,  \* success_count
    next_id,        \* number of certificate ids generated so far
    cert_id,        \* cert_id of the current row (0: none)
    ledger,         \* rows of the certificates table: set of [cert_id, row]
    archive,        \* entries written into the ZIP, in order: row numbers
    zip_path,       \* zip_path is not None
    zip_exists,     \* the file at zip_path exists on disk
    remove_failed,  \* os.remove(zip_path) raised in the outer except clause (history)
    out_pdf,        \* out_pdf is not None
    pdf_exists,     \* the file at out_pdf exists and is non-empty
    loop_ran,       \* the batch loop has run to its end (history)
    fatal,          \* the outer except clause of generate() ran (history)
    response        \* response of generate()

batchVars == <<pc, sid, uploads, aresp, placeholders_n, data_file, nrows, idx, step,
               attempted, raised, errors, success_count, next_id, cert_id, ledger,
               archive, zip_path, zip_exists, remove_failed, out_pdf, pdf_exists,
               loop_ran, fatal, response>>

(***************************************************************************)
(* State of the column matching (_compute_mapping and col_lookup).         *)
(***************************************************************************)
VARIABLES
    m_pc,             \* "input", "mapped", "looked_up"
    df_columns,       \* df.columns.tolist(): sequence of column names
    placeholder_keys, \* list(placeholders.keys())
    matched,          \* result of _compute_mapping: sequence of [placeholder, column]
    unmatched,        \* result of _compute_mapping: sequence of keys
    col_lookup        \* col_lookup of generate_certificate: normalised name -> value

matchVars == <<m_pc, df_columns, placeholder_keys, matched, unmatched, col_lookup>>

(***************************************************************************)
(* State of signing and verification (crypto_utils, verify_api).           *)
(***************************************************************************)
VARIABLES
    s_pc,        \* "input", "signed", "tampered", "verified"
    cert_data,   \* the tuple that is signed: [name, course, date, cert_id]
    secret_key,  \* SECRET_KEY
    signature,   \* sign_certificate(cert_data, secret_key)
    presented,   \* the tuple handed to verify_signature
    is_valid     \* result of verify_signature

signVars == <<s_pc, cert_data, secret_key, signature, presented, is_valid>>

(***************************************************************************)
(* State of generate_certificate (src/utils/certificate_generator.py).     *)
(***************************************************************************)
VARIABLES
    g_pc,          \* position inside generate_certificate
    doc,           \* the document handle: "none", "open", "closed"
    placeholders,  \* the marker map, as the sequence of its items in dict order
    row_data,      \* the row: sequence of [col, val]
    signature_path,\* signature_path is not None
    verification_url, \* verification_url is not empty
    g_col_lookup,  \* col_lookup
    mi,            \* index of the current marker in placeholders
    value,         \* value of the current marker
    alignment,     \* alignment of the current marker
    font_name,     \* font_name of the current marker
    current_size,  \* current_size (1/1000 pt)
    text_width,    \* text_width (1/1000 pt)
    shrinks,       \* iterations of the shrink loop that shrank
    x,             \* x of the replacement text
    todo,          \* page calls of the current marker still to make
    ops,           \* page calls made so far, in order (history)
    annots,        \* redaction annotations added and not yet applied
    page_items,    \* text on the first page: set of [kind, key]
    saved,         \* doc.save(output_path) has written the file
    g_error,       \* the message of the exception raised, as its parts
    warnings,      \* the overlay warnings printed, in order
    g_result       \* how generate_certificate ended: "none", "returned", "raised"

genVars == <<g_pc, doc, placeholders, row_data, signature_path, verification_url,
             g_col_lookup, mi, value, alignment, font_name, current_size, text_width,
             shrinks, x, todo, ops, annots, page_items, saved, g_error, warnings,
             g_result>>

(***************************************************************************)
(* State of extract_placeholders (placeholder_extractor.py).               *)
(***************************************************************************)
VARIABLES
    e_pc,             \* position inside extract_placeholders
    e_doc,            \* the document handle: "none", "open", "closed"
    template,         \* the pages of the PDF: each the blocks get_text("dict") gives for it
    registered_fonts, \* registered_fonts
    e_page,           \* index of the page being scanned
    e_placeholders,   \* placeholders, as the sequence of its items in insertion order
    e_result          \* how extract_placeholders ended: "none", "returned", "raised"

extractVars == <<e_pc, e_doc, template, registered_fonts, e_page, e_placeholders, e_result>>

(***************************************************************************)
(* State of two generate() requests running at once (src/app.py 257-376)   *)
(* and of the OUTPUT directory they share.                                 *)
(***************************************************************************)
VARIABLES
    c_pc,       \* per request: position inside the batch loop
    c_sid,      \* per request: sid
    c_rows,     \* per request: the first-column values of the rows of df
    c_idx,      \* per request: idx
    c_out_pdf,  \* per request: out_pdf
    c_zip,      \* per request: the documents written into its archive, in order
    c_success,  \* per request: success_count
    c_errors,   \* per request: len(errors)
    files,         \* the files of OUTPUT: path -> the document at that path
    interfered  \* history: [by, on, kind] when a request overwrote or removed a
                \* document another request had saved

concVars == <<c_pc, c_sid, c_rows, c_idx, c_out_pdf, c_zip, c_success, c_errors, files,
              interfered>>

(***************************************************************************)
(* State of the certificates table (src/utils/database.py).                *)
(***************************************************************************)
VARIABLES
    certificates,  \* the rows of the table certificates
    first_stored,  \* history: per cert_id, the record as it was when first read back
    last_call      \* the last call made on the table and its result

ledgerVars == <<certificates, first_stored, last_call>>

(***************************************************************************)
(* State of a batch whose rows go through generate_certificate one by one. *)
(***************************************************************************)
VARIABLES
    ex_df,     \* df: the rows load_data returned
    ex_pages   \* history: the first page of each row's document when the row ended

exampleVars == <<ex_df, ex_pages>>

(***************************************************************************)
(* State of the functions checked on their own, one call each.             *)
(***************************************************************************)
VARIABLES
    al_pc,         \* _detect_alignment: "off", "call", "done"
    al_page,       \* the blocks page.get_text("dict") gives
    al_rect,       \* placeholder_rect
    al_font_size,  \* font_size
    al_result      \* the value returned

alignVars == <<al_pc, al_page, al_rect, al_font_size, al_result>>

VARIABLES
    fl_pc,         \* lines 288-321 of generate(): "off", "call", "done"
    fl_columns,    \* df.columns
    fl_row,        \* row: the cell of each column
    fl_today,      \* what datetime.now().strftime('%Y-%m-%d') gives
    fl_cert_data   \* cert_data

fieldVars == <<fl_pc, fl_columns, fl_row, fl_today, fl_cert_data>>

(***************************************************************************)
(* State of issuing a certificate and verifying it later.                  *)
(***************************************************************************)
VARIABLES
    iss_pc,         \* "off", "row", "signed", "stored", "read", "verified"
    iss_cert_data,  \* cert_data of the row of generate()
    iss_signature,  \* signature, line 320
    iss_data_hash,  \* data_hash, line 321
    iss_table,      \* the rows of the table certificates
    iss_cert,       \* cert of verify_api: what get_certificate returned
    iss_valid       \* iss_valid of verify_api

issueVars == <<iss_pc, iss_cert_data, iss_signature, iss_data_hash, iss_table, iss_cert, iss_valid>>

(***************************************************************************)
(* State of the archive of one batch.                                      *)
(***************************************************************************)
VARIABLES
    ar_pc,             \* "off", "loop", "row", "done"
    ar_rows,           \* the first column's value of each row, as str() gives it
    ar_idx,            \* idx
    ar_safe,           \* safe
    ar_zip,            \* the entries of the archive, in the order they were written
    ar_success_count,  \* success_count
    ar_errors          \* errors: the idx of each row that has one

archiveVars == <<ar_pc, ar_rows, ar_idx, ar_safe, ar_zip, ar_success_count, ar_errors>>

pureVars == <<alignVars, fieldVars, issueVars, archiveVars>>

vars == <<batchVars, matchVars, signVars, genVars, extractVars, concVars, ledgerVars,
          exampleVars, pureVars>>

(***************************************************************************)
(* Text.  A string is a sequence of one-character strings, so that         *)
(* str.strip(), str.lower() and the f-string joins are computed character  *)
(* by character.                                                           *)
(***************************************************************************)
Whitespace == {" "}

\* str.lower() on the letters the model uses
LowerChar(c) ==
    CASE c = "A" -> "a"
      [] c = "C" -> "c"
      [] c = "E" -> "e"
      [] c = "M" -> "m"
      [] c = "N" -> "n"
      [] OTHER   -> c

Lower(t) == [i \in 1..Len(t) |-> LowerChar(t[i])]

RECURSIVE LStrip(_)
LStrip(t) == IF t # <<>> /\ Head(t) \in Whitespace THEN LStrip(Tail(t)) ELSE t

RECURSIVE RStrip(_)
RStrip(t) ==
    IF t # <<>> /\ t[Len(t)] \in Whitespace THEN RStrip(SubSeq(t, 1, Len(t) - 1)) ELSE t

\* str.strip()
Strip(t) == RStrip(LStrip(t))

\* An f-string is kept as the pieces of its source: runs of plain text, single
\* braces, and the names of the expressions between braces.  Its value is computed
\* as Python does, left to right: a doubled brace is one literal brace, {expr} is
\* the text of expr.  The result is a sequence of pieces of text.
RECURSIVE FString(_, _)
FString(src, env) ==
    IF src = <<>> THEN <<>>
    ELSE IF Len(src) >= 2 /\ src[1] = "{" /\ src[2] = "{"
      THEN <<"{">> \o FString(SubSeq(src, 3, Len(src)), env)
    ELSE IF Len(src) >= 2 /\ src[1] = "}" /\ src[2] = "}"
      THEN <<"}">> \o FString(SubSeq(src, 3, Len(src)), env)
    ELSE IF Len(src) >= 3 /\ src[1] = "{" /\ src[3] = "}"
      THEN env[src[2]] \o FString(SubSeq(src, 4, Len(src)), env)
    ELSE <<src[1]>> \o FString(Tail(src), env)

\* Cell values of a row: strings, and the float NaN of an empty numeric cell
StrVal(t) == [t |-> "str", s |-> t]
NaNVal == [t |-> "float_nan", s |-> <<>>]

\* str(value)
PyStr(v) == IF v.t = "float_nan" THEN <<"n", "a", "n">> ELSE v.s

v_Ana == <<"A", "n", "a">>

(***************************************************************************)
(* load_data: src/CertifyFast2-main/utils/data_loader.py 5-65.  A data     *)
(* file is its extension, the format its bytes really are, and its rows;   *)
(* a row is the sequence of its cells.                                     *)
(***************************************************************************)
DataCells == {StrVal(v_Ana), NaNVal}

DataRows == UNION {[1..n -> {<<c>> : c \in DataCells}] : n \in 0..MaxRows}

NoDataFile == [ext |-> "", format |-> "", rows |-> <<>>]

\* lines 21-48: a .csv file is read as CSV and, failing that, as Excel; .xlsx and
\* .xls are read as Excel; every other extension is refused
Parses(file) ==
    \/ file.ext = ".csv" /\ file.format \in {"csv", "excel"}
    \/ file.ext \in {".xlsx", ".xls"} /\ file.format = "excel"

\* The files the model draws from: those that parse, with every list of rows, and
\* one of each kind that does not
DataFiles ==
    {file \in [ext : {".csv", ".xlsx"}, format : {"csv", "excel"}, rows : DataRows] :
        Parses(file)}
    \cup {[ext |-> ".csv", format |-> "garbage", rows |-> <<>>],
          [ext |-> ".xlsx", format |-> "csv", rows |-> <<>>],
          [ext |-> ".txt", format |-> "csv", rows |-> <<>>]}

\* lines 34-37, 42-44, 46-48: the messages of the ValueError for a file that
\* cannot be read
ReadErrorMessage(file) ==
    IF file.ext = ".csv"
      THEN FString(<<"Could not read '", "{", "basename", "}",
                     "'. It appears to be neither valid CSV nor Excel. (", "{", "e", "}", ")">>,
                   [basename |-> <<"data", file.ext>>, e |-> <<"cause">>])
    ELSE IF file.ext \in {".xlsx", ".xls"}
      THEN FString(<<"Could not read '", "{", "basename", "}", "' as Excel. (", "{", "e", "}", ")">>,
                   [basename |-> <<"data", file.ext>>, e |-> <<"cause">>])
    ELSE FString(<<"Unsupported file type '", "{", "ext", "}",
                   "'. Please upload a .csv or .xlsx file.">>, [ext |-> <<file.ext>>])

\* line 63
NoRowsMessage == <<"The data file is empty - no rows to generate certificates from.">>

\* The reader gives a column the dtype object when it holds a string; a column of
\* empty cells only is a float column of NaN
ObjectColumn(rows, j) == \E i \in 1..Len(rows) : rows[i][j].t = "str"

\* lines 55-56: df[col].astype(str).str.strip() on the object columns; an empty
\* cell of such a column becomes the string "nan"
StripObjectColumns(rows) ==
    [i \in 1..Len(rows) |->
        [j \in 1..Len(rows[i]) |->
            IF ObjectColumn(rows, j) THEN StrVal(Strip(PyStr(rows[i][j]))) ELSE rows[i][j]]]

AllNa(row) == \A j \in 1..Len(row) : row[j].t = "float_nan"

\* lines 59-60: df.dropna(how="all"), reset_index
RECURSIVE DropNaAll(_)
DropNaAll(rows) ==
    IF rows = <<>> THEN <<>>
    ELSE IF AllNa(Head(rows)) THEN DropNaAll(Tail(rows))
    ELSE <<Head(rows)>> \o DropNaAll(Tail(rows))

Loaded(rows) == [ok |-> TRUE, rows |-> rows, msg |-> <<>>]

Raised(msg) == [ok |-> FALSE, rows |-> <<>>, msg |-> msg]

\* load_data without the test of line 62
LoadDataWithoutCheck(file) ==
    IF ~Parses(file) THEN Raised(ReadErrorMessage(file))
    ELSE Loaded(DropNaAll(StripObjectColumns(file.rows)))

\* load_data(path): the DataFrame, or the ValueError raised
load_data(file) ==
    IF ~Parses(file) THEN Raised(ReadErrorMessage(file))
    ELSE IF Len(DropNaAll(StripObjectColumns(file.rows))) = 0 THEN Raised(NoRowsMessage)
    ELSE Loaded(DropNaAll(StripObjectColumns(file.rows)))

(***************************************************************************)
(* analyze() and generate(): src/app.py.                                   *)
(***************************************************************************)
NoResponse == [kind |-> "none"]

\* jsonify({"error": msg}), status: msg is the message as its pieces of text, the
\* parts say what the message is made of
ErrorResponse(status, parts, msg) ==
    [kind |-> "error", status |-> status, parts |-> parts, msg |-> msg]

\* str(e) of an exception raised by the library
Cause == <<"cause">>

\* line 143
FilesRequiredMessage == <<"Both a PDF template and a data file are required.">>

\* lines 168-169
NoPlaceholdersInPdfMessage ==
    <<"No {{placeholders}} found in the PDF template. ",
      "Make sure placeholders look like {{Name}}, {{Course}}, etc.">>

\* lines 212, 233
SessionExpiredMessage == <<"Session expired. Please re-upload your files.">>

\* line 243
ExtractFailedMessage ==
    FString(<<"Failed to extract placeholders from PDF: ", "{", "e", "}">>, [e |-> Cause])

\* line 252
LoadFailedMessage(e) == FString(<<"Failed to load data file: ", "{", "e", "}">>, [e |-> e])

\* line 255
NoPlaceholdersMessage == <<"No placeholders found in template">>

\* lines 391-394: the first three errors are joined into the message
NoCertificatesMessage(errs) ==
    <<"Failed to generate any certificates.">>
        \o (IF errs # <<>> THEN <<" Errors: ", "errors[:3]">> ELSE <<>>)

\* line 408: f"{str(e)} | Traceback: {tb[:1000]}"
FatalMessage ==
    FString(<<"{", "e", "}", " | Traceback: ", "{", "tb", "}">>,
            [e |-> Cause, tb |-> <<"tb[:1000]">>])

\* send_file(zip_path, ...)
ArchiveResponse == [kind |-> "archive"]

BatchAt(p) ==
    /\ pc = p
    /\ sid = ""
    /\ uploads = {}
    /\ aresp = NoResponse
    /\ placeholders_n = 0
    /\ data_file = NoDataFile
    /\ nrows = 0
    /\ idx = 0
    /\ step = "none"
    /\ attempted = <<>>
    /\ raised = {}
    /\ errors = <<>>
    /\ success_count = 0
    /\ next_id = 0
    /\ cert_id = 0
    /\ ledger = {}
    /\ archive = <<>>
    /\ zip_path = FALSE
    /\ zip_exists = FALSE
    /\ remove_failed = FALSE
    /\ out_pdf = FALSE
    /\ pdf_exists = FALSE
    /\ loop_ran = FALSE
    /\ fatal = FALSE
    /\ response = NoResponse

BatchInit == BatchAt("analyze")

BatchOff == BatchAt("off")

(***************************************************************************)
(* analyze(): src/app.py 131-193.  One action for the whole handler; the   *)
(* outcome is decided by the uploaded files.                               *)
(***************************************************************************)
AnalyzeOutcomes == {"no_files", "extract_raises", "extracted"}

Analyze ==
    /\ pc = "analyze"
    /\ \E o \in AnalyzeOutcomes :
        CASE o = "no_files" ->
                /\ uploads' = {}
                /\ aresp' = ErrorResponse(400, {"message"}, FilesRequiredMessage)
                /\ UNCHANGED data_file
          [] o = "extract_raises" ->
                /\ uploads' = {"template", "data"}
                /\ aresp' = ErrorResponse(500, {"message"}, Cause)
                /\ UNCHANGED data_file
          [] OTHER ->
                \E file \in DataFiles : \E n \in 0..MaxMarkers :
                    /\ uploads' = {"template", "data"}
                    /\ data_file' = file
                    /\ aresp' = IF ~load_data(file).ok
                                  THEN ErrorResponse(400, {"message"}, load_data(file).msg)
                                ELSE IF n = 0
                                  THEN ErrorResponse(400, {"message"}, NoPlaceholdersInPdfMessage)
                                ELSE [kind |-> "ok"]
    /\ pc' = "g_start"
    /\ UNCHANGED <<sid, placeholders_n, nrows, idx, step, attempted, raised, errors,
                   success_count, next_id, cert_id, ledger, archive, zip_path,
                   zip_exists, remove_failed, out_pdf, pdf_exists, loop_ran, fatal,
                   response>>

(***************************************************************************)
(* generate(): src/app.py 196-420.                                         *)
(***************************************************************************)
rowVars == <<idx, step, attempted, raised, errors, success_count, next_id, cert_id,
             ledger, archive, out_pdf, pdf_exists, loop_ran>>

\* The session ids a client can send: none, the one analyze() returned, a stale one.
SessionIds == {"", "s1", "stale"}

\* A plain error return of generate(): jsonify({"error": msg}), status
Return(status, msg) ==
    /\ response' = ErrorResponse(status, {"message"}, msg)
    /\ pc' = "done"

\* The outer except clause, lines 405-420: the message is
\* f"{str(e)} | Traceback: {tb[:1000]}"; the ZIP is removed when it exists
\* (a failing os.remove is swallowed).
FatalExcept ==
    /\ response' = ErrorResponse(500, {"message", "traceback"}, FatalMessage)
    /\ fatal' = TRUE
    /\ pc' = "done"

\* The clean-up of lines 414-418 if it were missing
KeepZip(zp, ze) == UNCHANGED <<zip_exists, remove_failed>>

\* lines 414-418: os.remove(zip_path) if the file exists; when os.remove raises,
\* the bare except drops the exception and the file stays
RemoveZipIfExists(zp, ze) ==
    IF zp /\ ze
      THEN \/ zip_exists' = FALSE /\ UNCHANGED remove_failed
           \/ zip_exists' = TRUE /\ remove_failed' = TRUE
      ELSE UNCHANGED <<zip_exists, remove_failed>>

\* lines 204-212
GenStart ==
    /\ pc = "g_start"
    /\ \E s \in SessionIds :
        /\ s = "s1" => aresp.kind = "ok"
        /\ sid' = s
        /\ IF s = ""
             THEN Return(400, SessionExpiredMessage)
             ELSE pc' = "g_find" /\ UNCHANGED response
    /\ UNCHANGED <<uploads, aresp, placeholders_n, data_file, nrows, zip_path, zip_exists, remove_failed, fatal>>
    /\ UNCHANGED rowVars

\* lines 215-233: os.listdir may raise; the files are found by the sid prefix
GenFindFiles ==
    /\ pc = "g_find"
    /\ \/ /\ FatalExcept
          /\ RemoveZipIfExists(zip_path, zip_exists)
       \/ /\ IF sid = "s1" /\ {"template", "data"} \subseteq uploads
               THEN pc' = "g_extract" /\ UNCHANGED response
               ELSE Return(400, SessionExpiredMessage)
          /\ UNCHANGED <<fatal, zip_exists, remove_failed>>
    /\ UNCHANGED <<sid, uploads, aresp, placeholders_n, data_file, nrows, zip_path>>
    /\ UNCHANGED rowVars

\* lines 236-243: extract_placeholders raises, or returns the marker map
GenExtract ==
    /\ pc = "g_extract"
    /\ \/ /\ Return(500, ExtractFailedMessage)
          /\ UNCHANGED placeholders_n
       \/ /\ placeholders_n' \in 0..MaxMarkers
          /\ pc' = "g_load"
          /\ UNCHANGED response
    /\ UNCHANGED <<sid, uploads, aresp, data_file, nrows, zip_path, zip_exists, remove_failed, fatal>>
    /\ UNCHANGED rowVars

\* lines 245-252: load_data on the file found under the session prefix, whatever
\* it holds when the request runs
GenLoad ==
    /\ pc = "g_load"
    /\ \E file \in DataFiles :
        /\ data_file' = file
        /\ IF load_data(file).ok
             THEN /\ nrows' = Len(load_data(file).rows)
                  /\ pc' = "g_check"
                  /\ UNCHANGED response
             ELSE /\ Return(500, LoadFailedMessage(load_data(file).msg))
                  /\ UNCHANGED nrows
    /\ UNCHANGED <<sid, uploads, aresp, placeholders_n, zip_path, zip_exists,
                   remove_failed, fatal>>
    /\ UNCHANGED rowVars

\* The test of line 254 if it were missing: the batch starts without markers
GenStartsWithoutMarkers ==
    /\ pc = "g_check"
    /\ pc' = "g_zip" /\ zip_path' = TRUE /\ UNCHANGED response
    /\ UNCHANGED <<sid, uploads, aresp, placeholders_n, data_file, nrows, zip_exists,
                   remove_failed, fatal>>
    /\ UNCHANGED rowVars

\* lines 254-257
GenCheckPlaceholders ==
    /\ pc = "g_check"
    /\ IF placeholders_n = 0
         THEN Return(400, NoPlaceholdersMessage) /\ UNCHANGED zip_path
         ELSE pc' = "g_zip" /\ zip_path' = TRUE /\ UNCHANGED response
    /\ UNCHANGED <<sid, uploads, aresp, placeholders_n, data_file, nrows, zip_exists, remove_failed, fatal>>
    /\ UNCHANGED rowVars

\* lines 260-264: errors = [], success_count = 0, zipfile.ZipFile(zip_path, "w")
GenOpenZip ==
    /\ pc = "g_zip"
    /\ \/ /\ FatalExcept
          /\ RemoveZipIfExists(zip_path, zip_exists)
       \/ /\ zip_exists' = TRUE
          /\ pc' = "g_loop"
          /\ UNCHANGED <<fatal, response, remove_failed>>
    /\ UNCHANGED <<sid, uploads, aresp, placeholders_n, data_file, nrows, zip_path>>
    /\ UNCHANGED rowVars

\* line 266-267: the for statement, and leaving the loop
LoopNext ==
    /\ pc = "g_loop"
    /\ IF idx < nrows
         THEN /\ attempted' = Append(attempted, idx)
              /\ out_pdf' = FALSE
              /\ step' = "prepare"
              /\ pc' = "g_row"
              /\ UNCHANGED loop_ran
         ELSE /\ loop_ran' = TRUE
              /\ pc' = "g_close"
              /\ UNCHANGED <<attempted, out_pdf, step>>
    /\ UNCHANGED <<sid, uploads, aresp, placeholders_n, data_file, nrows, zip_path, zip_exists, remove_failed,
                   fatal, response, idx, raised, errors, success_count, next_id,
                   cert_id, ledger, archive, pdf_exists>>

\* End of one iteration
NextRow ==
    /\ idx' = idx + 1
    /\ step' = "none"
    /\ pc' = "g_loop"

\* The except clause of the loop body if it were missing: the exception leaves the loop
RowExceptPropagates ==
    /\ raised' = raised \cup {idx}
    /\ FatalExcept
    /\ RemoveZipIfExists(zip_path, zip_exists)
    /\ UNCHANGED <<errors, pdf_exists, idx, step>>

\* lines 365-376: the except clause of the loop body
RowExcept ==
    /\ raised' = raised \cup {idx}
    /\ errors' = Append(errors, [row |-> idx + 1, msg |-> "exception"])
    /\ pdf_exists' = FALSE
    /\ NextRow
    /\ UNCHANGED <<response, fatal, zip_exists, remove_failed>>

\* lines 269-324: raw_data, the file name, the certificate id, cert_data, the signature
RowPrepare ==
    /\ pc = "g_row" /\ step = "prepare"
    /\ \/ /\ RowExcept
          /\ UNCHANGED <<out_pdf, next_id, cert_id>>
       \/ /\ out_pdf' = TRUE
          /\ next_id' = next_id + 1
          /\ cert_id' = next_id + 1
          /\ step' = "generate"
          /\ UNCHANGED <<pc, idx, raised, errors, pdf_exists, response, fatal, zip_exists, remove_failed>>
    /\ UNCHANGED <<sid, uploads, aresp, placeholders_n, data_file, nrows, zip_path, attempted,
                   success_count, ledger, archive, loop_ran>>

\* lines 327-337: generate_certificate raises, or returns; the file it saved can be
\* missing or empty when line 351 looks at it
RowGenerate ==
    /\ pc = "g_row" /\ step = "generate"
    /\ \/ RowExcept
       \/ /\ pdf_exists' \in {TRUE, FALSE}
          /\ step' = "store"
          /\ UNCHANGED <<pc, idx, raised, errors, response, fatal, zip_exists, remove_failed>>
    /\ UNCHANGED <<sid, uploads, aresp, placeholders_n, data_file, nrows, zip_path, attempted,
                   success_count, ledger, archive, loop_ran, out_pdf, next_id, cert_id>>

\* src/utils/database.py 35-55: INSERT INTO certificates
store_certificate(id, row) == ledger' = ledger \cup {[cert_id |-> id, row |-> row]}

\* lines 340-348
RowStore ==
    /\ pc = "g_row" /\ step = "store"
    /\ \/ /\ RowExcept
          /\ UNCHANGED ledger
       \/ /\ store_certificate(cert_id, idx)
          /\ step' = "check"
          /\ UNCHANGED <<pc, idx, raised, errors, pdf_exists, response, fatal, zip_exists, remove_failed>>
    /\ UNCHANGED <<sid, uploads, aresp, placeholders_n, data_file, nrows, zip_path, attempted,
                   success_count, archive, loop_ran, out_pdf, next_id, cert_id>>

\* The check of the saved file if a missing file were passed over in silence
RowCheckSilent ==
    /\ pc = "g_row" /\ step = "check"
    /\ IF pdf_exists
         THEN \/ /\ RowExcept
                 /\ UNCHANGED <<archive, success_count>>
              \/ /\ archive' = Append(archive, idx)
                 /\ success_count' = success_count + 1
                 /\ pdf_exists' = FALSE
                 /\ NextRow
                 /\ UNCHANGED <<raised, errors, response, fatal, zip_exists, remove_failed>>
         ELSE /\ NextRow
              /\ UNCHANGED <<raised, errors, pdf_exists, archive, success_count, response,
                             fatal, zip_exists, remove_failed>>
    /\ UNCHANGED <<sid, uploads, aresp, placeholders_n, data_file, nrows, zip_path, attempted,
                   ledger, loop_ran, out_pdf, next_id, cert_id>>

\* lines 351-363
RowCheck ==
    /\ pc = "g_row" /\ step = "check"
    /\ IF pdf_exists
         THEN \/ /\ RowExcept                    \* zf.write raises
                 /\ UNCHANGED <<archive, success_count>>
              \/ /\ archive' = Append(archive, idx)
                 /\ success_count' = success_count + 1
                 /\ pdf_exists' = FALSE
                 /\ NextRow
                 /\ UNCHANGED <<raised, errors, response, fatal, zip_exists, remove_failed>>
         ELSE /\ errors' = Append(errors, [row |-> idx + 1, msg |-> "PDF not created"])
              /\ NextRow
              /\ UNCHANGED <<raised, pdf_exists, archive, success_count, response,
                             fatal, zip_exists, remove_failed>>
    /\ UNCHANGED <<sid, uploads, aresp, placeholders_n, data_file, nrows, zip_path, attempted,
                   ledger, loop_ran, out_pdf, next_id, cert_id>>

\* line 264: leaving the with statement closes the archive
GenCloseZip ==
    /\ pc = "g_close"
    /\ \/ /\ FatalExcept
          /\ RemoveZipIfExists(zip_path, zip_exists)
       \/ /\ pc' = "g_cleanup"
          /\ UNCHANGED <<fatal, response, zip_exists, remove_failed>>
    /\ UNCHANGED <<sid, uploads, aresp, placeholders_n, data_file, nrows, zip_path>>
    /\ UNCHANGED rowVars

\* lines 380-387: os.remove of the session files; an OSError ends the clean-up
GenCleanup ==
    /\ pc = "g_cleanup"
    /\ uploads' \in {{}, {"data"}, uploads}
    /\ pc' = "g_decide"
    /\ UNCHANGED <<sid, aresp, placeholders_n, data_file, nrows, zip_path, zip_exists, remove_failed, fatal, response>>
    /\ UNCHANGED rowVars

\* The decision if any failed row failed the batch
DecideFailsOnAnyError ==
    IF success_count = 0 \/ errors # <<>>
      THEN Return(500, NoCertificatesMessage(errors))
      ELSE pc' = "g_send" /\ UNCHANGED response

\* lines 389-396
Decide ==
    IF success_count = 0
      THEN Return(500, NoCertificatesMessage(errors))
      ELSE pc' = "g_send" /\ UNCHANGED response

GenDecide ==
    /\ pc = "g_decide"
    /\ Decide
    /\ UNCHANGED <<sid, uploads, aresp, placeholders_n, data_file, nrows, zip_path, zip_exists, remove_failed, fatal>>
    /\ UNCHANGED rowVars

\* lines 402-403: send_file
GenSend ==
    /\ pc = "g_send"
    /\ \/ /\ FatalExcept
          /\ RemoveZipIfExists(zip_path, zip_exists)
       \/ /\ response' = ArchiveResponse
          /\ pc' = "done"
          /\ UNCHANGED <<fatal, zip_exists, remove_failed>>
    /\ UNCHANGED <<sid, uploads, aresp, placeholders_n, data_file, nrows, zip_path>>
    /\ UNCHANGED rowVars

BatchNext ==
    \/ Analyze /\ UNCHANGED <<matchVars, signVars, genVars, extractVars, concVars, ledgerVars, exampleVars, pureVars>>
    \/ GenStart /\ UNCHANGED <<matchVars, signVars, genVars, extractVars, concVars, ledgerVars, exampleVars, pureVars>>
    \/ GenFindFiles /\ UNCHANGED <<matchVars, signVars, genVars, extractVars, concVars, ledgerVars, exampleVars, pureVars>>
    \/ GenExtract /\ UNCHANGED <<matchVars, signVars, genVars, extractVars, concVars, ledgerVars, exampleVars, pureVars>>
    \/ GenLoad /\ UNCHANGED <<matchVars, signVars, genVars, extractVars, concVars, ledgerVars, exampleVars, pureVars>>
    \/ GenCheckPlaceholders /\ UNCHANGED <<matchVars, signVars, genVars, extractVars, concVars, ledgerVars, exampleVars, pureVars>>
    \/ GenOpenZip /\ UNCHANGED <<matchVars, signVars, genVars, extractVars, concVars, ledgerVars, exampleVars, pureVars>>
    \/ LoopNext /\ UNCHANGED <<matchVars, signVars, genVars, extractVars, concVars, ledgerVars, exampleVars, pureVars>>
    \/ RowPrepare /\ UNCHANGED <<matchVars, signVars, genVars, extractVars, concVars, ledgerVars, exampleVars, pureVars>>
    \/ RowGenerate /\ UNCHANGED <<matchVars, signVars, genVars, extractVars, concVars, ledgerVars, exampleVars, pureVars>>
    \/ RowStore /\ UNCHANGED <<matchVars, signVars, genVars, extractVars, concVars, ledgerVars, exampleVars, pureVars>>
    \/ RowCheck /\ UNCHANGED <<matchVars, signVars, genVars, extractVars, concVars, ledgerVars, exampleVars, pureVars>>
    \/ GenCloseZip /\ UNCHANGED <<matchVars, signVars, genVars, extractVars, concVars, ledgerVars, exampleVars, pureVars>>
    \/ GenCleanup /\ UNCHANGED <<matchVars, signVars, genVars, extractVars, concVars, ledgerVars, exampleVars, pureVars>>
    \/ GenDecide /\ UNCHANGED <<matchVars, signVars, genVars, extractVars, concVars, ledgerVars, exampleVars, pureVars>>
    \/ GenSend /\ UNCHANGED <<matchVars, signVars, genVars, extractVars, concVars, ledgerVars, exampleVars, pureVars>>

(***************************************************************************)
(* Column matching: _compute_mapping (src/app.py 37-58) and the col_lookup *)
(* of generate_certificate (src/utils/certificate_generator.py 101-109).   *)
(***************************************************************************)
k_name == <<"n", "a", "m", "e">>
k_course == <<"c", "o", "u", "r", "s", "e">>

c_Name == <<"N", "a", "m", "e">>
c_NAME == <<"N", "A", "M", "E">>
c_name_padded == <<" ", "n", "a", "m", "e", " ">>
c_names == <<"n", "a", "m", "e", "s">>
c_nam == <<"n", "a", "m">>
c_Course == <<"C", "o", "u", "r", "s", "e">>
c_course_padded == <<"c", "o", "u", "r", "s", "e", " ">>

\* The column names and marker names the model draws from
ColumnNames == {c_Name, c_NAME, c_name_padded, k_name, c_names, c_nam, c_Course,
                c_course_padded}

MarkerNames == {k_name, k_course}

Range(seq) == {seq[i] : i \in 1..Len(seq)}

\* placeholders.keys()
Keys(phs) == {phs[i].key : i \in 1..Len(phs)}

\* Sequences of 1..n distinct elements of S
DistinctSeqs(S, n) ==
    {q \in UNION {[1..m -> S] : m \in 1..n} : \A i, j \in 1..Len(q) : q[i] = q[j] => i = j}

\* col.strip().lower() without the strip
NormaliseLowerOnly(col) == Lower(col)

\* col.strip().lower(): app.py 47, certificate_generator.py 103
Normalise(col) == Lower(Strip(col))

\* A dict comprehension { Normalise(col): f(i) for i, col in enumerate(cols) }:
\* a later column with the same normalised name overwrites an earlier one
LastIndex(cols, k) ==
    CHOOSE i \in 1..Len(cols) :
        /\ Normalise(cols[i]) = k
        /\ \A j \in (i + 1)..Len(cols) : Normalise(cols[j]) # k

NormalisedNames(cols) == {Normalise(cols[i]) : i \in 1..Len(cols)}

\* col_map of _compute_mapping, line 47
ColMap(cols) == [k \in NormalisedNames(cols) |-> cols[LastIndex(cols, k)]]

\* col_lookup of generate_certificate, line 103; row_data is a sequence of [col, val]
ColLookup(row) ==
    LET cols == [i \in 1..Len(row) |-> row[i].col]
    IN  [k \in NormalisedNames(cols) |-> row[LastIndex(cols, k)].val]

\* lines 49-58
ComputeMatched(cols, keys) ==
    LET cm == ColMap(cols)
        hit == SelectSeq(keys, LAMBDA k : k \in DOMAIN cm)
    IN  [i \in 1..Len(hit) |-> [placeholder |-> hit[i], column |-> cm[hit[i]]]]

ComputeUnmatched(cols, keys) ==
    LET matched_keys == {m.placeholder : m \in Range(ComputeMatched(cols, keys))}
    IN  SelectSeq(keys, LAMBDA k : k \notin matched_keys)

MatchAt(p) ==
    /\ m_pc = p
    /\ df_columns = <<>>
    /\ placeholder_keys = <<>>
    /\ matched = <<>>
    /\ unmatched = <<>>
    /\ col_lookup = <<>>

MatchOff == MatchAt("off")

MatchInit ==
    /\ m_pc = "input"
    /\ df_columns \in DistinctSeqs(ColumnNames, MaxCols)
    /\ placeholder_keys \in DistinctSeqs(MarkerNames, MaxMarkers)
    /\ matched = <<>>
    /\ unmatched = <<>>
    /\ col_lookup = <<>>

\* _compute_mapping(df.columns.tolist(), list(placeholders.keys()))
ComputeMapping ==
    /\ m_pc = "input"
    /\ matched' = ComputeMatched(df_columns, placeholder_keys)
    /\ unmatched' = ComputeUnmatched(df_columns, placeholder_keys)
    /\ m_pc' = "mapped"
    /\ UNCHANGED <<df_columns, placeholder_keys, col_lookup>>

\* generate_certificate builds col_lookup from a row over the same columns; the
\* value of column i is i
BuildColLookup ==
    /\ m_pc = "mapped"
    /\ col_lookup' = ColLookup([i \in 1..Len(df_columns) |-> [col |-> df_columns[i], val |-> i]])
    /\ m_pc' = "looked_up"
    /\ UNCHANGED <<df_columns, placeholder_keys, matched, unmatched>>

MatchNext ==
    \/ ComputeMapping /\ UNCHANGED <<batchVars, signVars, genVars, extractVars, concVars, ledgerVars, exampleVars, pureVars>>
    \/ BuildColLookup /\ UNCHANGED <<batchVars, signVars, genVars, extractVars, concVars, ledgerVars, exampleVars, pureVars>>

(***************************************************************************)
(* Signing: src/utils/crypto_utils.py.                                     *)
(***************************************************************************)
Fields == {"name", "course", "date", "cert_id"}

\* The field values and keys the model draws from
FieldValues == {<<>>, <<"a">>, <<"|">>, <<"a", "|">>}

SecretKeys == {<<"k">>, <<"a">>}

\* hashlib.sha256(t.encode()).hexdigest(), as a collision-free hash: the digest
\* stands for its preimage and nothing else
Sha256(t) == [sha256 |-> t]

\* The canonical string with the date left out
CanonicalWithoutDate(cd) == cd.name \o <<"|">> \o cd.course \o <<"|">> \o cd.cert_id

\* f"{cert_data['name']}|{cert_data['course']}|{cert_data['date']}|{cert_data['cert_id']}"
Canonical(cd) ==
    cd.name \o <<"|">> \o cd.course \o <<"|">> \o cd.date \o <<"|">> \o cd.cert_id

\* lines 14-22
compute_certificate_hash(cd) == Sha256(Canonical(cd))

\* lines 25-34
sign_certificate(cd, key) == Sha256(Canonical(cd) \o <<"|">> \o key)

\* lines 37-40: secrets.compare_digest(signature, expected)
verify_signature(cd, sig, key) == sig = sign_certificate(cd, key)

NoTuple == [name |-> <<>>, course |-> <<>>, date |-> <<>>, cert_id |-> <<>>]

SignAt(p) ==
    /\ s_pc = p
    /\ cert_data = NoTuple
    /\ secret_key = <<>>
    /\ signature = Sha256(<<>>)
    /\ presented = NoTuple
    /\ is_valid = FALSE

SignOff == SignAt("off")

SignInit ==
    /\ s_pc = "input"
    /\ cert_data \in [Fields -> FieldValues]
    /\ secret_key \in SecretKeys
    /\ signature = Sha256(<<>>)
    /\ presented = cert_data
    /\ is_valid = FALSE

\* app.py 320: signature = sign_certificate(cert_data, SECRET_KEY)
Sign ==
    /\ s_pc = "input"
    /\ signature' = sign_certificate(cert_data, secret_key)
    /\ s_pc' = "signed"
    /\ UNCHANGED <<cert_data, secret_key, presented, is_valid>>

\* One field of the tuple is changed before it is verified
Tamper ==
    /\ s_pc = "signed"
    /\ \E f \in Fields : \E v \in FieldValues \ {cert_data[f]} :
        presented' = [cert_data EXCEPT ![f] = v]
    /\ s_pc' = "tampered"
    /\ UNCHANGED <<cert_data, secret_key, signature, is_valid>>

\* Another tuple, with the id of the signed one, is presented with its signature
PresentOther ==
    /\ s_pc = "signed"
    /\ \E other \in [Fields -> FieldValues] \ {cert_data} :
        /\ other.cert_id = cert_data.cert_id
        /\ presented' = other
    /\ s_pc' = "other"
    /\ UNCHANGED <<cert_data, secret_key, signature, is_valid>>

\* app.py 108-116: is_valid = verify_signature(cert_data, cert['signature'], SECRET_KEY)
Verify ==
    /\ s_pc \in {"signed", "tampered", "other"}
    /\ is_valid' = verify_signature(presented, signature, secret_key)
    /\ s_pc' = "verified"
    /\ UNCHANGED <<cert_data, secret_key, signature, presented>>

SignNext ==
    \/ Sign /\ UNCHANGED <<batchVars, matchVars, genVars, extractVars, concVars, ledgerVars, exampleVars, pureVars>>
    \/ Tamper /\ UNCHANGED <<batchVars, matchVars, genVars, extractVars, concVars, ledgerVars, exampleVars, pureVars>>
    \/ PresentOther /\ UNCHANGED <<batchVars, matchVars, genVars, extractVars, concVars, ledgerVars, exampleVars, pureVars>>
    \/ Verify /\ UNCHANGED <<batchVars, matchVars, genVars, extractVars, concVars, ledgerVars, exampleVars, pureVars>>

(***************************************************************************)
(* generate_certificate: src/utils/certificate_generator.py 82-274.        *)
(* Lengths are in 1/1000 pt.                                               *)
(***************************************************************************)
v_Math == <<"M", "a", "t", "h">>
v_blank == <<" ">>
v_nan == <<"n", "a", "n">>
v_NaN == <<"N", "a", "N">>
v_NAN_padded == <<" ", "N", "A", "N", " ">>
v_wide == [i \in 1..30 |-> "W"]

CellValues == {StrVal(v_Ana), StrVal(<<>>), StrVal(v_blank), StrVal(v_nan), StrVal(v_NaN),
               StrVal(v_NAN_padded), NaNVal, StrVal(v_wide)}

\* The rows the model draws from: a first column that matches the marker name or
\* does not, and a Course column
Rows ==
    {<<[col |-> c, val |-> v], [col |-> c_Course, val |-> w]>> :
        c \in {c_Name, c_names}, v \in CellValues,
        w \in {StrVal(v_Math), StrVal(<<>>), StrVal(v_wide)}}

\* page.rect.width
page_width == 600000

\* The style records extract_placeholders can return for the markers of the
\* template: the name marker in an embedded font, the course marker near the right
\* edge or at it in a built-in font, each in two sizes
MarkerStyles(key) ==
    IF key = k_name
      THEN {[key |-> key,
             rect |-> [x0 |-> 100000, y0 |-> 200000, x1 |-> 220000, y1 |-> 224000],
             font_size |-> fs, font_name |-> "Garet-Bold"] : fs \in {20000, 48000}}
      ELSE {[key |-> key, rect |-> r, font_size |-> fs, font_name |-> "helv"] :
               r \in {[x0 |-> 480000, y0 |-> 300000, x1 |-> 560000, y1 |-> 314000],
                      [x0 |-> 570000, y0 |-> 300000, x1 |-> 598000, y1 |-> 314000]},
               fs \in {9000, 12000}}

\* The marker maps over the given keys
MarkerMaps(keys) ==
    {q \in [1..Len(keys) -> UNION {MarkerStyles(k) : k \in MarkerNames}] :
        \A i \in 1..Len(keys) : q[i] \in MarkerStyles(keys[i])}


\* The fonts fitz.get_text_length knows by name: the built-in ones
MeasurableFonts == {"helv", "Helvetica"}

\* Advance widths of Helvetica glyphs, in 1/1000 em
GlyphWidth(c) ==
    CASE c = "W" -> 944
      [] c = "A" -> 667
      [] c = "M" -> 833
      [] c = "N" -> 722
      [] c = " " -> 278
      [] c = "t" -> 278
      [] OTHER   -> 556

RECURSIVE SumWidths(_)
SumWidths(t) == IF t = <<>> THEN 0 ELSE GlyphWidth(Head(t)) + SumWidths(Tail(t))

\* fitz.get_text_length(value, fontsize=size, fontname=...)
get_text_length(t, size) == (SumWidths(t) * size) \div 1000

GenAt(p) ==
    /\ g_pc = p
    /\ doc = "none"
    /\ placeholders = <<>>
    /\ row_data = <<>>
    /\ signature_path = FALSE
    /\ verification_url = FALSE
    /\ warnings = <<>>
    /\ g_col_lookup = <<>>
    /\ mi = 0
    /\ value = <<>>
    /\ alignment = "left"
    /\ font_name = ""
    /\ current_size = 0
    /\ text_width = 0
    /\ shrinks = 0
    /\ x = 0
    /\ todo = <<>>
    /\ ops = <<>>
    /\ annots = {}
    /\ page_items = {}
    /\ saved = FALSE
    /\ g_error = <<>>
    /\ g_result = "none"

GenOff == GenAt("off")

\* The first page of the template shows every marker of the marker map
GenInit ==
    /\ g_pc = "open"
    /\ doc = "none"
    /\ placeholders \in UNION {MarkerMaps(keys) : keys \in DistinctSeqs(MarkerNames, MaxMarkers)}
    /\ row_data \in Rows
    /\ signature_path \in BOOLEAN
    /\ verification_url \in BOOLEAN
    /\ warnings = <<>>
    /\ g_col_lookup = <<>>
    /\ mi = 0
    /\ value = <<>>
    /\ alignment = "left"
    /\ font_name = ""
    /\ current_size = 0
    /\ text_width = 0
    /\ shrinks = 0
    /\ x = 0
    /\ todo = <<>>
    /\ ops = <<>>
    /\ annots = {}
    /\ page_items = {[kind |-> "marker", key |-> k] : k \in Keys(placeholders)}
    /\ saved = FALSE
    /\ g_error = <<>>
    /\ g_result = "none"

ShrinkCap == 30

NoRect == [x0 |-> 0, y0 |-> 0, x1 |-> 0, y1 |-> 0]

CurrentMeta == placeholders[mi]

CurrentKey == CurrentMeta.key

\* line 271: f"Certificate generation failed: {str(e)}"
GenerationFailedSrc == <<"Certificate generation failed: ", "{", "e", "}">>

\* line 170: f"Failed to replace {{{{{{key}}}}}}: {str(e)}"
FailedToReplaceSrc ==
    <<"Failed to replace ", "{", "{", "{", "{", "{", "{", "key", "}", "}", "}", "}", "}", "}",
      ": ", "{", "e", "}">>

\* lines 270-274: the outer except clause wraps the message, finally closes the
\* document if there is one
Fail(msg) ==
    /\ g_error' = FString(GenerationFailedSrc, [e |-> msg])
    /\ g_result' = "raised"
    /\ doc' = IF doc = "open" THEN "closed" ELSE doc
    /\ g_pc' = "done"

\* lines 168-170: the except clause of one marker raises a new exception, which
\* the outer except clause wraps
MarkerFail == Fail(FString(FailedToReplaceSrc, [key |-> CurrentKey, e |-> Cause]))

\* line 96: doc = fitz.open(template_path)
GOpen ==
    /\ g_pc = "open"
    /\ \/ /\ Fail(Cause)
       \/ /\ doc' = "open"
          /\ g_pc' = "lookup"
          /\ UNCHANGED <<g_error, g_result>>
    /\ UNCHANGED <<placeholders, row_data, signature_path, verification_url, warnings, g_col_lookup, mi, value,
                   alignment, font_name, current_size, text_width, shrinks, x, todo,
                   ops, annots, page_items, saved>>

\* lines 97-103: page = doc[0], col_lookup
GLookup ==
    /\ g_pc = "lookup"
    /\ \/ /\ Fail(Cause)
          /\ UNCHANGED <<g_col_lookup, mi>>
       \/ /\ g_col_lookup' = ColLookup(row_data)
          /\ mi' = 1
          /\ g_pc' = "marker"
          /\ UNCHANGED <<doc, g_error, g_result>>
    /\ UNCHANGED <<placeholders, row_data, signature_path, verification_url, warnings, value, alignment, font_name,
                   current_size, text_width, shrinks, x, todo, ops, annots, page_items,
                   saved>>

\* The skip test if it skipped nothing
SkipsNever(v) == FALSE

\* The skip test if it looked at the empty string only
SkipsEmptyOnly(v) == v = <<>>

\* line 112: not value or value.lower() == "nan"
Skips(v) == v = <<>> \/ Lower(v) = <<"n", "a", "n">>

\* lines 105-126: the for statement, the two continue tests, the style record,
\* _detect_alignment (left or center, by the layout of the page)
GMarker ==
    /\ g_pc = "marker"
    /\ IF mi > Len(placeholders)
         THEN /\ g_pc' = "qr"
              /\ UNCHANGED <<mi, value, alignment, font_name, current_size, shrinks,
                             doc, g_error, g_result>>
         ELSE IF CurrentKey \notin DOMAIN g_col_lookup
                   \/ Skips(Strip(PyStr(g_col_lookup[CurrentKey])))
           THEN /\ mi' = mi + 1
                /\ UNCHANGED <<g_pc, value, alignment, font_name, current_size, shrinks,
                               doc, g_error, g_result>>
           ELSE \/ /\ MarkerFail
                   /\ UNCHANGED <<mi, value, alignment, font_name, current_size, shrinks>>
                \/ /\ value' = Strip(PyStr(g_col_lookup[CurrentKey]))
                   /\ alignment' \in {"left", "center"}
                   /\ font_name' = CurrentMeta.font_name
                   /\ current_size' = CurrentMeta.font_size
                   /\ shrinks' = 0
                   /\ g_pc' = "measure"
                   /\ UNCHANGED <<mi, doc, g_error, g_result>>
    /\ UNCHANGED <<placeholders, row_data, signature_path, verification_url, warnings, g_col_lookup, text_width, x,
                   todo, ops, annots, page_items, saved>>

\* The measurement if the second try did not change the font that is used later
GMeasureKeepsFont ==
    /\ g_pc = "measure"
    /\ \/ /\ text_width' = get_text_length(value, current_size)
          /\ g_pc' = "shrink"
          /\ UNCHANGED <<font_name, doc, g_error, g_result>>
       \/ /\ font_name \notin MeasurableFonts
          /\ MarkerFail
          /\ UNCHANGED <<font_name, text_width>>
    /\ UNCHANGED <<placeholders, row_data, signature_path, verification_url, warnings, g_col_lookup, mi, value,
                   alignment, current_size, shrinks, x, todo, ops, annots, page_items,
                   saved>>

\* lines 127-133: measure with the marker's font; if that raises, with Helvetica
GMeasure ==
    /\ g_pc = "measure"
    /\ IF font_name \in MeasurableFonts
         THEN /\ text_width' = get_text_length(value, current_size)
              /\ g_pc' = "shrink"
              /\ UNCHANGED <<font_name, doc, g_error, g_result>>
         ELSE \/ /\ font_name' = "Helvetica"
                 /\ text_width' = get_text_length(value, current_size)
                 /\ g_pc' = "shrink"
                 /\ UNCHANGED <<doc, g_error, g_result>>
              \/ /\ MarkerFail
                 /\ font_name' = "Helvetica"
                 /\ UNCHANGED text_width
    /\ UNCHANGED <<placeholders, row_data, signature_path, verification_url, warnings, g_col_lookup, mi, value,
                   alignment, current_size, shrinks, x, todo, ops, annots, page_items,
                   saved>>

\* line 136: max_width = page_width * 0.85 - rect.x0
max_width == (page_width * 85) \div 100 - CurrentMeta.rect.x0

\* A shrink step that grows the size
GrowSize(size) == (size * 107) \div 100

\* line 141: current_size *= 0.93
ShrinkSize(size) == (size * 93) \div 100

\* lines 138-142: one iteration of for _ in range(30)
GShrink ==
    /\ g_pc = "shrink"
    /\ IF shrinks < ShrinkCap /\ text_width > max_width
         THEN \/ /\ current_size' = ShrinkSize(current_size)
                 /\ text_width' = get_text_length(value, ShrinkSize(current_size))
                 /\ shrinks' = shrinks + 1
                 /\ UNCHANGED <<g_pc, doc, g_error, g_result>>
              \/ /\ MarkerFail
                 /\ current_size' = ShrinkSize(current_size)
                 /\ UNCHANGED <<text_width, shrinks>>
         ELSE /\ g_pc' = "place"
              /\ UNCHANGED <<current_size, text_width, shrinks, doc, g_error, g_result>>
    /\ UNCHANGED <<placeholders, row_data, signature_path, verification_url, warnings, g_col_lookup, mi, value,
                   alignment, font_name, x, todo, ops, annots, page_items, saved>>

\* The anchor if the centred placement were never given up
AnchorXNoFallback(align, rect, tw) ==
    IF align = "left" THEN rect.x0 ELSE rect.x0 + ((rect.x1 - rect.x0) - tw) \div 2

\* lines 145-150; the comparisons are made on twice the coordinates, which are whole
AnchorX(align, rect, tw) ==
    LET twice == 2 * rect.x0 + ((rect.x1 - rect.x0) - tw)
    IN  IF align = "left" THEN rect.x0
        ELSE IF twice < 0 \/ twice + 2 * tw > 2 * page_width THEN rect.x0
        ELSE rect.x0 + ((rect.x1 - rect.x0) - tw) \div 2

\* line 156: fitz.Rect(rect.x0 - 1, rect.y0 - 1, rect.x1 + 1, rect.y1 + 1)
RedactRect(rect) ==
    [x0 |-> rect.x0 - 1000, y0 |-> rect.y0 - 1000, x1 |-> rect.x1 + 1000, y1 |-> rect.y1 + 1000]

\* The page calls of a marker with the text inserted first
InsertBeforeRedact(key, rect) ==
    << [op |-> "insert_text", key |-> key, rect |-> NoRect],
       [op |-> "add_redact_annot", key |-> key, rect |-> RedactRect(rect)],
       [op |-> "apply_redactions", key |-> <<>>, rect |-> NoRect] >>

\* lines 155-167: the page calls of a marker, in the order the code makes them
MarkerCalls(key, rect) ==
    << [op |-> "add_redact_annot", key |-> key, rect |-> RedactRect(rect)],
       [op |-> "apply_redactions", key |-> <<>>, rect |-> NoRect],
       [op |-> "insert_text", key |-> key, rect |-> NoRect] >>

\* lines 144-153: x and the baseline
GPlace ==
    /\ g_pc = "place"
    /\ x' = AnchorX(alignment, CurrentMeta.rect, text_width)
    /\ todo' = MarkerCalls(CurrentKey, CurrentMeta.rect)
    /\ g_pc' = "page"
    /\ UNCHANGED <<doc, placeholders, row_data, signature_path, verification_url, warnings, g_col_lookup, mi, value,
                   alignment, font_name, current_size, text_width, shrinks, ops, annots,
                   page_items, saved, g_error, g_result>>

\* What a page call does to the page: a redaction annotation waits until
\* apply_redactions, which erases all text in the annotated regions; insert_text
\* adds the replacement text in the marker's region (the regions of different
\* markers are taken not to overlap)
PageAfter(call) ==
    CASE call.op = "add_redact_annot" ->
            /\ annots' = annots \cup {call.key}
            /\ UNCHANGED page_items
      [] call.op = "apply_redactions" ->
            /\ page_items' = {it \in page_items : it.key \notin annots}
            /\ annots' = {}
      [] OTHER ->
            /\ page_items' = page_items \cup {[kind |-> "value", key |-> call.key]}
            /\ UNCHANGED annots

\* lines 157-167, one call at a time; after the last one the next marker
GPageCall ==
    /\ g_pc = "page"
    /\ IF todo = <<>>
         THEN /\ mi' = mi + 1
              /\ g_pc' = "marker"
              /\ UNCHANGED <<todo, ops, annots, page_items, doc, g_error, g_result>>
         ELSE \/ /\ MarkerFail
                 /\ UNCHANGED <<mi, todo, ops, annots, page_items>>
              \/ /\ PageAfter(Head(todo))
                 /\ ops' = Append(ops, Head(todo))
                 /\ todo' = Tail(todo)
                 /\ UNCHANGED <<mi, g_pc, doc, g_error, g_result>>
    /\ UNCHANGED <<placeholders, row_data, signature_path, verification_url, warnings, g_col_lookup, value, alignment,
                   font_name, current_size, text_width, shrinks, x, saved>>

\* An overlay's except clause if it were missing: the exception reaches the outer
\* except clause
OverlayExceptPropagates(what, next) ==
    /\ Fail(Cause)
    /\ UNCHANGED warnings

\* lines 225-227 and 264-266: the except clause of an overlay prints a warning and
\* the function goes on
OverlayExcept(what, next) ==
    /\ warnings' = Append(warnings, what)
    /\ g_pc' = next
    /\ UNCHANGED <<doc, g_error, g_result>>

QrImage == [op |-> "insert_image", key |-> <<"q", "r">>, rect |-> NoRect]

QrIdText == [op |-> "insert_text", key |-> <<"I", "D">>, rect |-> NoRect]

SigImage == [op |-> "insert_image", key |-> <<"s", "i", "g">>, rect |-> NoRect]

\* lines 172-227: the QR overlay.  generate_qr_code, qr_to_bytes or
\* page.insert_image raises; or the image is placed and, with a cert_id, the
\* "ID: ..." text under it, which may raise too
GQr ==
    /\ g_pc = "qr"
    /\ IF verification_url
         THEN \/ /\ OverlayExcept("qr", "sig")
                 /\ UNCHANGED ops
              \/ /\ OverlayExcept("qr", "sig")
                 /\ ops' = Append(ops, QrImage)
              \/ /\ \E with_id \in BOOLEAN :
                        ops' = IF with_id THEN ops \o <<QrImage, QrIdText>>
                                          ELSE Append(ops, QrImage)
                 /\ g_pc' = "sig"
                 /\ UNCHANGED <<doc, g_error, g_result, warnings>>
         ELSE /\ g_pc' = "sig"
              /\ UNCHANGED <<ops, doc, g_error, g_result, warnings>>
    /\ UNCHANGED <<placeholders, row_data, signature_path, verification_url, g_col_lookup,
                   mi, value, alignment, font_name, current_size, text_width, shrinks, x,
                   todo, annots, page_items, saved>>

\* lines 229-266: the signature overlay.  os.path.exists or page.insert_image
\* raises; or the file is not there and nothing is placed; or the image is placed
GSig ==
    /\ g_pc = "sig"
    /\ IF signature_path
         THEN \/ /\ OverlayExcept("signature", "save")
                 /\ UNCHANGED ops
              \/ /\ \E exists \in BOOLEAN :
                        ops' = IF exists THEN Append(ops, SigImage) ELSE ops
                 /\ g_pc' = "save"
                 /\ UNCHANGED <<doc, g_error, g_result, warnings>>
         ELSE /\ g_pc' = "save"
              /\ UNCHANGED <<ops, doc, g_error, g_result, warnings>>
    /\ UNCHANGED <<placeholders, row_data, signature_path, verification_url, g_col_lookup,
                   mi, value, alignment, font_name, current_size, text_width, shrinks, x,
                   todo, annots, page_items, saved>>

\* line 268: doc.save(output_path)
GSave ==
    /\ g_pc = "save"
    /\ \/ /\ Fail(Cause)
          /\ UNCHANGED saved
       \/ /\ saved' = TRUE
          /\ g_pc' = "finally"
          /\ UNCHANGED <<doc, g_error, g_result>>
    /\ UNCHANGED <<placeholders, row_data, signature_path, verification_url, warnings, g_col_lookup, mi, value,
                   alignment, font_name, current_size, text_width, shrinks, x, todo,
                   ops, annots, page_items>>

\* lines 272-274 on the normal path
GFinally ==
    /\ g_pc = "finally"
    /\ doc' = "closed"
    /\ g_result' = "returned"
    /\ g_pc' = "done"
    /\ UNCHANGED <<placeholders, row_data, signature_path, verification_url, warnings, g_col_lookup, mi, value,
                   alignment, font_name, current_size, text_width, shrinks, x, todo,
                   ops, annots, page_items, saved, g_error>>

GenNext ==
    \/ GOpen /\ UNCHANGED <<batchVars, matchVars, signVars, extractVars, concVars, ledgerVars, exampleVars, pureVars>>
    \/ GLookup /\ UNCHANGED <<batchVars, matchVars, signVars, extractVars, concVars, ledgerVars, exampleVars, pureVars>>
    \/ GMarker /\ UNCHANGED <<batchVars, matchVars, signVars, extractVars, concVars, ledgerVars, exampleVars, pureVars>>
    \/ GMeasure /\ UNCHANGED <<batchVars, matchVars, signVars, extractVars, concVars, ledgerVars, exampleVars, pureVars>>
    \/ GShrink /\ UNCHANGED <<batchVars, matchVars, signVars, extractVars, concVars, ledgerVars, exampleVars, pureVars>>
    \/ GPlace /\ UNCHANGED <<batchVars, matchVars, signVars, extractVars, concVars, ledgerVars, exampleVars, pureVars>>
    \/ GPageCall /\ UNCHANGED <<batchVars, matchVars, signVars, extractVars, concVars, ledgerVars, exampleVars, pureVars>>
    \/ GQr /\ UNCHANGED <<batchVars, matchVars, signVars, extractVars, concVars, ledgerVars, exampleVars, pureVars>>
    \/ GSig /\ UNCHANGED <<batchVars, matchVars, signVars, extractVars, concVars, ledgerVars, exampleVars, pureVars>>
    \/ GSave /\ UNCHANGED <<batchVars, matchVars, signVars, extractVars, concVars, ledgerVars, exampleVars, pureVars>>
    \/ GFinally /\ UNCHANGED <<batchVars, matchVars, signVars, extractVars, concVars, ledgerVars, exampleVars, pureVars>>

(***************************************************************************)
(* extract_placeholders:                                                   *)
(* src/CertifyFast2-main-fixed/utils/placeholder_extractor.py 7-114.       *)
(***************************************************************************)
\* A style run of a line as page.get_text("dict") gives it: a span with its text, its
\* box (in 1/1000 pt), its size (in 1/1000 pt), its packed 0xRRGGBB colour, its font
Span(text, x0, y0, x1, y1, size, color, font) ==
    [text |-> text, bbox |-> [x0 |-> x0, y0 |-> y0, x1 |-> x1, y1 |-> y1],
     size |-> size, color |-> color, font |-> font]

s_to == Span(<<"T", "o", " ">>, 60000, 200000, 100000, 224000, 12000, 0, "Helvetica")
s_name == Span(<<"{", "{", "n", "a", "m", "e", "}", "}">>, 100000, 200000, 220000, 224000, 20000, 12582912, "AAAAAA+Garet-Bold")
s_bang == Span(<<"!">>, 220000, 200000, 230000, 224000, 12000, 0, "Helvetica")
s_name_again == Span(<<"{", "{", "N", "A", "M", "E", "}", "}">>, 100000, 400000, 320000, 448000, 48000, 255, "Helvetica")
s_course == Span(<<"{", "{", "c", "o", "u", "r", "s", "e", "}", "}">>, 480000, 300000, 560000, 314000, 12000, 0, "Helvetica")
s_plain == Span(<<"{", "{", " ", "}", "}">>, 100000, 100000, 160000, 114000, 12000, 0, "Helvetica")

\* One line whose two markers each straddle two spans: To {{Na | me}} {{ | course}}
s_head == Span(<<"T", "o", " ", "{", "{", "N", "a">>, 60000, 204000, 140000, 220000, 12000, 0, "Helvetica")
s_mid == Span(<<"m", "e", "}", "}", " ", "{", "{">>, 140000, 200000, 240000, 224000, 20000, 12582912, "AAAAAA+Garet-Bold")
s_tail == Span(<<"c", "o", "u", "r", "s", "e", "}", "}">>, 240000, 206000, 300000, 218000, 9000, 255, "Helvetica")

l_plain == <<s_plain>>
l_name == <<s_to, s_name, s_bang>>
l_twice == <<s_name, s_name_again>>
l_again == <<s_name_again>>
l_course == <<s_course>>
l_split == <<s_head, s_mid, s_tail>>

\* Blocks of a page: text blocks (type 0) with their lines, image blocks (type 1)
TextBlock(lines) == [type |-> 0, lines |-> lines]

ImageBlock == [type |-> 1, lines |-> <<>>]

\* The pages the model draws from
PageContents ==
    {<<ImageBlock>>,
     <<TextBlock(<<l_plain, l_name>>)>>,
     <<ImageBlock, TextBlock(<<l_course>>)>>,
     <<TextBlock(<<l_split>>)>>,
     <<TextBlock(<<l_twice>>), TextBlock(<<l_course, l_again>>)>>,
     <<TextBlock(<<l_again>>)>>}

Templates == UNION {[1..n -> PageContents] : n \in 1..MaxPages}

\* embedded_name.split("+")[-1]
CleanName(font) == IF font = "AAAAAA+Garet-Bold" THEN "Garet-Bold" ELSE font

\* lines 185-202
_pick_font(embedded_name, registered) ==
    IF CleanName(embedded_name) \in registered THEN CleanName(embedded_name) ELSE "helv"

\* lines 47-52: full_line_text
RECURSIVE FullLineText(_)
FullLineText(spans) ==
    IF spans = <<>> THEN <<>> ELSE Head(spans).text \o FullLineText(Tail(spans))

\* lines 48-53: span_map, the spans with their offsets in full_line_text
RECURSIVE SpanMap(_, _)
SpanMap(spans, start) ==
    IF spans = <<>> THEN <<>>
    ELSE <<[start |-> start, end |-> start + Len(Head(spans).text), span |-> Head(spans)]>>
             \o SpanMap(Tail(spans), start + Len(Head(spans).text))

\* \w on the characters the model uses
WordChars == {"a", "c", "e", "m", "n", "o", "r", "s", "u", "A", "E", "M", "N", "T", "_"}

\* The offset at which the run of word characters that starts at offset o ends
RECURSIVE WordRunEnd(_, _)
WordRunEnd(text, o) ==
    IF o < Len(text) /\ text[o + 1] \in WordChars THEN WordRunEnd(text, o + 1) ELSE o

NoMatch == 0 - 1

\* line 4: where a match of \{\{(\w+)\}\} that starts at offset o ends
MatchEndAt(text, o) ==
    LET w == WordRunEnd(text, o + 2)
    IN  IF /\ o + 2 <= Len(text)
           /\ text[o + 1] = "{" /\ text[o + 2] = "{"
           /\ w > o + 2
           /\ w + 2 <= Len(text)
           /\ text[w + 1] = "}" /\ text[w + 2] = "}"
          THEN w + 2
          ELSE NoMatch

\* line 56: PLACEHOLDER_RE.finditer(full_line_text), the matches from offset o on
RECURSIVE finditer(_, _)
finditer(text, o) ==
    IF o >= Len(text) THEN <<>>
    ELSE IF MatchEndAt(text, o) # NoMatch
           THEN <<[start |-> o, end |-> MatchEndAt(text, o),
                   group |-> SubSeq(text, o + 3, MatchEndAt(text, o) - 2)]>>
                    \o finditer(text, MatchEndAt(text, o))
           ELSE finditer(text, o + 1)

\* The key test if it never found a key
NeverFound(key, phs) == FALSE

\* line 58: if key in placeholders
AlreadyFound(key, phs) == key \in Keys(phs)

\* The overlap test if it took the span that holds the opening braces only
OverlapsStartOnly(sm, match) == sm.start <= match.start /\ match.start < sm.end

\* line 70: s_end > match_start and s_start < match_end
Overlaps(sm, match) == sm.end > match.start /\ sm.start < match.end

\* lines 83-87: the three bytes of the packed colour (each divided by 255.0 in the
\* code; kept here as the byte)
Color(raw_color) ==
    <<(raw_color \div 65536) % 256, (raw_color \div 256) % 256, raw_color % 256>>

MinOf(S) == CHOOSE v \in S : \A w \in S : v <= w

MaxOf(S) == CHOOSE v \in S : \A w \in S : v >= w

\* lines 78-111: the record of a marker, from the spans that overlap its match
MarkerRecord(key, bbox_spans, registered) ==
    LET style_span == bbox_spans[1].span
        boxes == {bbox_spans[i].span.bbox : i \in 1..Len(bbox_spans)}
    IN  [key |-> key,
         rect |-> [x0 |-> MinOf({bx.x0 : bx \in boxes}), y0 |-> MinOf({bx.y0 : bx \in boxes}),
                   x1 |-> MaxOf({bx.x1 : bx \in boxes}), y1 |-> MaxOf({bx.y1 : bx \in boxes})],
         font_size |-> style_span.size,
         font_name |-> _pick_font(style_span.font, registered),
         color |-> Color(style_span.color),
         embedded_font |-> style_span.font]

\* line 104: placeholders[key] = {...}
SetItem(phs, rec) ==
    IF rec.key \in Keys(phs)
      THEN [i \in 1..Len(phs) |-> IF phs[i].key = rec.key THEN rec ELSE phs[i]]
      ELSE Append(phs, rec)

\* lines 56-111: the matches of one line
RECURSIVE ScanMatches(_, _, _, _)
ScanMatches(phs, matches, span_map, registered) ==
    IF matches = <<>> THEN phs
    ELSE LET match == Head(matches)
             key == Lower(match.group)
             bbox_spans == SelectSeq(span_map, LAMBDA sm : Overlaps(sm, match))
         IN  IF AlreadyFound(key, phs) \/ bbox_spans = <<>>
               THEN ScanMatches(phs, Tail(matches), span_map, registered)
               ELSE ScanMatches(SetItem(phs, MarkerRecord(key, bbox_spans, registered)),
                                Tail(matches), span_map, registered)

\* lines 44-111: the lines of one block
RECURSIVE ScanLines(_, _, _)
ScanLines(phs, lines, registered) ==
    IF lines = <<>> THEN phs
    ELSE ScanLines(ScanMatches(phs, finditer(FullLineText(Head(lines)), 0),
                               SpanMap(Head(lines), 0), registered),
                   Tail(lines), registered)

\* lines 40-111: the blocks of one page; a block that is not text is skipped
RECURSIVE ScanBlocks(_, _, _)
ScanBlocks(phs, blocks, registered) ==
    IF blocks = <<>> THEN phs
    ELSE IF Head(blocks).type # 0
           THEN ScanBlocks(phs, Tail(blocks), registered)
           ELSE ScanBlocks(ScanLines(phs, Head(blocks).lines, registered),
                           Tail(blocks), registered)

ExtractAt(p) ==
    /\ e_pc = p
    /\ e_doc = "none"
    /\ template = <<>>
    /\ registered_fonts = {}
    /\ e_page = 0
    /\ e_placeholders = <<>>
    /\ e_result = "none"

ExtractOff == ExtractAt("off")

ExtractInit ==
    /\ e_pc = "open"
    /\ e_doc = "none"
    /\ template \in Templates
    /\ registered_fonts = {}
    /\ e_page = 0
    /\ e_placeholders = <<>>
    /\ e_result = "none"

\* An exception leaves extract_placeholders: nothing on its way closes the document
ERaise ==
    /\ e_result' = "raised"
    /\ e_pc' = "done"

\* lines 31-32: doc = fitz.open(pdf_path)
EOpen ==
    /\ e_pc = "open"
    /\ \/ /\ ERaise
          /\ UNCHANGED e_doc
       \/ /\ e_doc' = "open"
          /\ e_pc' = "fonts"
          /\ UNCHANGED e_result
    /\ UNCHANGED <<template, registered_fonts, e_page, e_placeholders>>

\* line 35, lines 121-182: page.get_fonts is outside every try of
\* _register_embedded_fonts; extracting and registering a font is inside one
ERegisterFonts ==
    /\ e_pc = "fonts"
    /\ \/ /\ ERaise
          /\ UNCHANGED <<registered_fonts, e_page>>
       \/ /\ registered_fonts' \in SUBSET {"Garet-Bold"}
          /\ e_page' = 1
          /\ e_pc' = "scan"
          /\ UNCHANGED e_result
    /\ UNCHANGED <<e_doc, template, e_placeholders>>

\* lines 37-111: one page of for page in doc; page.get_text may raise
EScanPage ==
    /\ e_pc = "scan"
    /\ IF e_page > Len(template)
         THEN /\ e_pc' = "close"
              /\ UNCHANGED <<e_page, e_placeholders, e_result>>
         ELSE \/ /\ ERaise
                 /\ UNCHANGED <<e_page, e_placeholders>>
              \/ /\ e_placeholders' = ScanBlocks(e_placeholders, template[e_page],
                                                 registered_fonts)
                 /\ e_page' = e_page + 1
                 /\ UNCHANGED <<e_pc, e_result>>
    /\ UNCHANGED <<e_doc, template, registered_fonts>>

\* lines 113-114: doc.close(); return placeholders
EClose ==
    /\ e_pc = "close"
    /\ e_doc' = "closed"
    /\ e_result' = "returned"
    /\ e_pc' = "done"
    /\ UNCHANGED <<template, registered_fonts, e_page, e_placeholders>>

ExtractNext ==
    \/ EOpen /\ UNCHANGED <<batchVars, matchVars, signVars, genVars, concVars, ledgerVars, exampleVars, pureVars>>
    \/ ERegisterFonts /\ UNCHANGED <<batchVars, matchVars, signVars, genVars, concVars, ledgerVars, exampleVars, pureVars>>
    \/ EScanPage /\ UNCHANGED <<batchVars, matchVars, signVars, genVars, concVars, ledgerVars, exampleVars, pureVars>>
    \/ EClose /\ UNCHANGED <<batchVars, matchVars, signVars, genVars, concVars, ledgerVars, exampleVars, pureVars>>

(***************************************************************************)
(* Two generate() requests running at once: the batch loop of src/app.py   *)
(* 257-376 as far as it touches files.  Each system call is one step, and  *)
(* the steps of the two requests interleave.                               *)
(***************************************************************************)
Requests == {1, 2}

Other(b) == 3 - b

\* str(n) for the small numbers of the model
PyStrInt(n) == <<"0", "1", "2", "3", "4", "5", "6", "7", "8", "9">>[n + 1]

\* c.isalnum() on the characters the model uses
IsAlnum(c) == c \notin {" ", "_", "-", "/", "|", "{", "}"}

\* line 277: every character that is not alphanumeric, blank, "_" or "-" becomes "_"
Sanitise(t) == Strip([i \in 1..Len(t) |-> IF IsAlnum(t[i]) \/ t[i] \in {" ", "_", "-"}
                                            THEN t[i] ELSE "_"])

\* f"certificate_{idx + 1}"
DefaultName(i) == <<"certificate_", PyStrInt(i + 1)>>

\* lines 272-279: the file name from the first column's value
SafeName(val, i) ==
    LET fname_val == IF Skips(Strip(val)) THEN DefaultName(i) ELSE Strip(val)
    IN  IF Sanitise(fname_val) = <<>> THEN DefaultName(i) ELSE Sanitise(fname_val)

\* line 281: os.path.join(OUTPUT, f"{safe}_{idx}.pdf")
OutPdfPath(val, i) == [dir |-> "OUTPUT", name |-> SafeName(val, i) \o <<"_", PyStrInt(i), ".pdf">>]

\* line 257: os.path.join(OUTPUT, f"certificates_{sid}.zip")
ZipPath(s) == [dir |-> "OUTPUT", name |-> <<"certificates_", s, ".zip">>]

\* The first-column values the model draws from
FirstColumnValues == {v_Ana, <<"A", "/", "a">>, <<>>}

NoPath == [dir |-> "", name |-> <<>>]

NoFile == [by |-> 0, row |-> 0]

PdfPaths == {OutPdfPath(v, i) : v \in FirstColumnValues, i \in 0..(MaxConcRows - 1)}

ConcAt(p) ==
    /\ c_pc = [b \in Requests |-> p]
    /\ c_sid = [b \in Requests |-> ""]
    /\ c_rows = [b \in Requests |-> <<>>]
    /\ c_idx = [b \in Requests |-> 0]
    /\ c_out_pdf = [b \in Requests |-> NoPath]
    /\ c_zip = [b \in Requests |-> <<>>]
    /\ c_success = [b \in Requests |-> 0]
    /\ c_errors = [b \in Requests |-> 0]
    /\ files = <<>>
    /\ interfered = {}

ConcOff == ConcAt("off")

\* Two requests with different session ids, each past line 264 with its own rows
ConcInit ==
    /\ c_pc = [b \in Requests |-> "loop"]
    /\ c_sid = [b \in Requests |-> IF b = 1 THEN "s1" ELSE "s2"]
    /\ c_rows \in [Requests -> UNION {[1..n -> FirstColumnValues] : n \in 1..MaxConcRows}]
    /\ c_idx = [b \in Requests |-> 0]
    /\ c_out_pdf = [b \in Requests |-> NoPath]
    /\ c_zip = [b \in Requests |-> <<>>]
    /\ c_success = [b \in Requests |-> 0]
    /\ c_errors = [b \in Requests |-> 0]
    /\ files = [p \in PdfPaths |-> NoFile]
    /\ interfered = {}

\* What touching the file at path does to a document another request saved there
Touch(b, path, kind) ==
    IF files[path].by = Other(b)
      THEN interfered' = interfered \cup {[by |-> b, on |-> Other(b), kind |-> kind]}
      ELSE UNCHANGED interfered

\* lines 266-267: the for statement; out_pdf = None
CLoop(b) ==
    /\ c_pc[b] = "loop"
    /\ IF c_idx[b] < Len(c_rows[b])
         THEN /\ c_out_pdf' = [c_out_pdf EXCEPT ![b] = NoPath]
              /\ c_pc' = [c_pc EXCEPT ![b] = "prepare"]
         ELSE /\ c_pc' = [c_pc EXCEPT ![b] = "done"]
              /\ UNCHANGED c_out_pdf
    /\ UNCHANGED <<c_sid, c_rows, c_idx, c_zip, c_success, c_errors, files, interfered>>

\* lines 269-281
CPrepare(b) ==
    /\ c_pc[b] = "prepare"
    /\ c_out_pdf' = [c_out_pdf EXCEPT ![b] = OutPdfPath(c_rows[b][c_idx[b] + 1], c_idx[b])]
    /\ c_pc' = [c_pc EXCEPT ![b] = "generate"]
    /\ UNCHANGED <<c_sid, c_rows, c_idx, c_zip, c_success, c_errors, files, interfered>>

\* lines 327-348: generate_certificate saves the document at out_pdf, or raises
\* before saving; store_certificate may raise after it
CGenerate(b) ==
    /\ c_pc[b] = "generate"
    /\ \/ /\ c_pc' = [c_pc EXCEPT ![b] = "except"]
          /\ UNCHANGED <<files, interfered>>
       \/ /\ files' = [files EXCEPT ![c_out_pdf[b]] = [by |-> b, row |-> c_idx[b] + 1]]
          /\ Touch(b, c_out_pdf[b], "overwrite")
          /\ c_pc' \in {[c_pc EXCEPT ![b] = "check"], [c_pc EXCEPT ![b] = "except"]}
    /\ UNCHANGED <<c_sid, c_rows, c_idx, c_out_pdf, c_zip, c_success, c_errors>>

\* The end of one iteration
CNextRow(b) ==
    /\ c_idx' = [c_idx EXCEPT ![b] = c_idx[b] + 1]
    /\ c_pc' = [c_pc EXCEPT ![b] = "loop"]

\* line 351, and lines 361-363 when the file is not there
CCheck(b) ==
    /\ c_pc[b] = "check"
    /\ IF files[c_out_pdf[b]] # NoFile
         THEN /\ c_pc' = [c_pc EXCEPT ![b] = "write"]
              /\ UNCHANGED <<c_idx, c_errors>>
         ELSE /\ c_errors' = [c_errors EXCEPT ![b] = c_errors[b] + 1]
              /\ CNextRow(b)
    /\ UNCHANGED <<c_sid, c_rows, c_out_pdf, c_zip, c_success, files, interfered>>

\* lines 352-353: zf.write packages whatever is at out_pdf, and raises if nothing is
CWrite(b) ==
    /\ c_pc[b] = "write"
    /\ IF files[c_out_pdf[b]] # NoFile
         THEN /\ c_zip' = [c_zip EXCEPT ![b] = Append(c_zip[b], files[c_out_pdf[b]])]
              /\ c_success' = [c_success EXCEPT ![b] = c_success[b] + 1]
              /\ c_pc' = [c_pc EXCEPT ![b] = "remove"]
         ELSE /\ c_pc' = [c_pc EXCEPT ![b] = "except"]
              /\ UNCHANGED <<c_zip, c_success>>
    /\ UNCHANGED <<c_sid, c_rows, c_idx, c_out_pdf, c_errors, files, interfered>>

\* os.remove(out_pdf) with every exception swallowed
RemoveOutPdf(b) ==
    IF files[c_out_pdf[b]] # NoFile
      THEN \/ /\ files' = [files EXCEPT ![c_out_pdf[b]] = NoFile]
              /\ Touch(b, c_out_pdf[b], "remove")
           \/ UNCHANGED <<files, interfered>>
      ELSE UNCHANGED <<files, interfered>>

\* lines 356-359
CRemove(b) ==
    /\ c_pc[b] = "remove"
    /\ RemoveOutPdf(b)
    /\ CNextRow(b)
    /\ UNCHANGED <<c_sid, c_rows, c_out_pdf, c_zip, c_success, c_errors>>

\* lines 365-376: the except clause removes the file at out_pdf if there is one
CExcept(b) ==
    /\ c_pc[b] = "except"
    /\ c_errors' = [c_errors EXCEPT ![b] = c_errors[b] + 1]
    /\ RemoveOutPdf(b)
    /\ CNextRow(b)
    /\ UNCHANGED <<c_sid, c_rows, c_out_pdf, c_zip, c_success>>

ExampleOff ==
    /\ ex_df = <<>>
    /\ ex_pages = <<>>

(***************************************************************************)
(* The batch loop of generate() (src/app.py 266-376) with the call of line *)
(* 327 carried out by generate_certificate, on a template with the markers *)
(* name and course and a data file of two rows: Ana / Math, and an empty   *)
(* Name cell / Bio.                                                        *)
(***************************************************************************)
v_Bio == <<"B", "i", "o">>

ExampleColumns == <<c_Name, c_Course>>

\* The empty Name cell of row 2 as the file can hold it: no value, an empty
\* string, a blank
ExampleFiles ==
    {[ext |-> ".xlsx", format |-> "excel",
      rows |-> << <<StrVal(v_Ana), StrVal(v_Math)>>, <<empty, StrVal(v_Bio)>> >>] :
        empty \in {NaNVal, StrVal(<<>>), StrVal(v_blank)}}

\* line 269: raw_data = {col: row[col] for col in df.columns}
RawData(columns, row) == [j \in 1..Len(columns) |-> [col |-> columns[j], val |-> row[j]]]

\* The request is at the for statement of line 266: the files were found, the
\* markers extracted, the data loaded and the archive opened
ExampleInit ==
    /\ \E file \in ExampleFiles :
        /\ data_file = file
        /\ ex_df = load_data(file).rows
        /\ nrows = Len(load_data(file).rows)
    /\ ex_pages = <<>>
    /\ pc = "g_loop"
    /\ sid = "s1"
    /\ uploads = {"template", "data"}
    /\ aresp = [kind |-> "ok"]
    /\ placeholders_n = 2
    /\ idx = 0
    /\ step = "none"
    /\ attempted = <<>>
    /\ raised = {}
    /\ errors = <<>>
    /\ success_count = 0
    /\ next_id = 0
    /\ cert_id = 0
    /\ ledger = {}
    /\ archive = <<>>
    /\ zip_path = TRUE
    /\ zip_exists = TRUE
    /\ remove_failed = FALSE
    /\ out_pdf = FALSE
    /\ pdf_exists = FALSE
    /\ loop_ran = FALSE
    /\ fatal = FALSE
    /\ response = NoResponse
    /\ g_pc = "off"
    /\ doc = "none"
    /\ placeholders \in MarkerMaps(<<k_name, k_course>>)
    /\ row_data = <<>>
    /\ signature_path = FALSE
    /\ verification_url = FALSE
    /\ warnings = <<>>
    /\ g_col_lookup = <<>>
    /\ mi = 0
    /\ value = <<>>
    /\ alignment = "left"
    /\ font_name = ""
    /\ current_size = 0
    /\ text_width = 0
    /\ shrinks = 0
    /\ x = 0
    /\ todo = <<>>
    /\ ops = <<>>
    /\ annots = {}
    /\ page_items = {}
    /\ saved = FALSE
    /\ g_error = <<>>
    /\ g_result = "none"

\* line 327: the call of generate_certificate with the row, the marker map and the
\* verification URL of line 324
ExCall ==
    /\ pc = "g_row" /\ step = "generate"
    /\ step' = "in_generate"
    /\ g_pc' = "open"
    /\ doc' = "none"
    /\ row_data' = RawData(ExampleColumns, ex_df[idx + 1])
    /\ verification_url' = TRUE
    /\ warnings' = <<>>
    /\ g_col_lookup' = <<>>
    /\ mi' = 0
    /\ value' = <<>>
    /\ alignment' = "left"
    /\ font_name' = ""
    /\ current_size' = 0
    /\ text_width' = 0
    /\ shrinks' = 0
    /\ x' = 0
    /\ todo' = <<>>
    /\ ops' = <<>>
    /\ annots' = {}
    /\ page_items' = {[kind |-> "marker", key |-> k] : k \in Keys(placeholders)}
    /\ saved' = FALSE
    /\ g_error' = <<>>
    /\ g_result' = "none"
    /\ UNCHANGED <<placeholders, signature_path, ex_df, ex_pages>>
    /\ UNCHANGED <<pc, sid, uploads, aresp, placeholders_n, data_file, nrows, idx, attempted,
                   raised, errors, success_count, next_id, cert_id, ledger, archive,
                   zip_path, zip_exists, remove_failed, out_pdf, pdf_exists, loop_ran,
                   fatal, response>>

\* lines 327-337: generate_certificate has raised, or has returned; the file it
\* saved can be missing or empty when line 351 looks at it
ExReturn ==
    /\ pc = "g_row" /\ step = "in_generate"
    /\ g_pc = "done"
    /\ ex_pages' = Append(ex_pages, page_items)
    /\ IF g_result = "raised"
         THEN RowExcept
         ELSE /\ pdf_exists' \in {saved, FALSE}
              /\ step' = "store"
              /\ UNCHANGED <<pc, idx, raised, errors, response, fatal, zip_exists, remove_failed>>
    /\ UNCHANGED <<sid, uploads, aresp, placeholders_n, data_file, nrows, zip_path, attempted,
                   success_count, ledger, archive, loop_ran, out_pdf, next_id, cert_id>>
    /\ UNCHANGED <<genVars, ex_df>>

ExampleNext ==
    \/ LoopNext /\ UNCHANGED <<matchVars, signVars, genVars, extractVars, concVars, ledgerVars, exampleVars, pureVars>>
    \/ RowPrepare /\ UNCHANGED <<matchVars, signVars, genVars, extractVars, concVars, ledgerVars, exampleVars, pureVars>>
    \/ ExCall /\ UNCHANGED <<matchVars, signVars, extractVars, concVars, ledgerVars, pureVars>>
    \/ GenNext
    \/ ExReturn /\ UNCHANGED <<matchVars, signVars, extractVars, concVars, ledgerVars, pureVars>>
    \/ RowStore /\ UNCHANGED <<matchVars, signVars, genVars, extractVars, concVars, ledgerVars, exampleVars, pureVars>>
    \/ RowCheck /\ UNCHANGED <<matchVars, signVars, genVars, extractVars, concVars, ledgerVars, exampleVars, pureVars>>

ConcNext ==
    \/ \E b \in Requests : CLoop(b) /\ UNCHANGED <<batchVars, matchVars, signVars, genVars, extractVars, ledgerVars, exampleVars, pureVars>>
    \/ \E b \in Requests : CPrepare(b) /\ UNCHANGED <<batchVars, matchVars, signVars, genVars, extractVars, ledgerVars, exampleVars, pureVars>>
    \/ \E b \in Requests : CGenerate(b) /\ UNCHANGED <<batchVars, matchVars, signVars, genVars, extractVars, ledgerVars, exampleVars, pureVars>>
    \/ \E b \in Requests : CCheck(b) /\ UNCHANGED <<batchVars, matchVars, signVars, genVars, extractVars, ledgerVars, exampleVars, pureVars>>
    \/ \E b \in Requests : CWrite(b) /\ UNCHANGED <<batchVars, matchVars, signVars, genVars, extractVars, ledgerVars, exampleVars, pureVars>>
    \/ \E b \in Requests : CRemove(b) /\ UNCHANGED <<batchVars, matchVars, signVars, genVars, extractVars, ledgerVars, exampleVars, pureVars>>
    \/ \E b \in Requests : CExcept(b) /\ UNCHANGED <<batchVars, matchVars, signVars, genVars, extractVars, ledgerVars, exampleVars, pureVars>>

(***************************************************************************)
(* The certificates table: src/utils/database.py 13-83.                    *)
(***************************************************************************)
CertIds == {"c1", "c2", "c3"}

RecipientNames == {v_Ana, v_Math}

NoRecord == [cert_id |-> "", name |-> <<>>]

RowsWithId(tbl, id) == {r \in tbl : r.cert_id = id}

\* The INSERT if it replaced a row with the same key
InsertOrReplace(tbl, rec) ==
    [ok |-> TRUE, table |-> (tbl \ RowsWithId(tbl, rec.cert_id)) \cup {rec}]

\* lines 40-54: INSERT INTO certificates; cert_id is the PRIMARY KEY (line 20), so a
\* row with a key that is taken is refused with an IntegrityError
InsertRow(tbl, rec) ==
    IF RowsWithId(tbl, rec.cert_id) # {}
      THEN [ok |-> FALSE, table |-> tbl]
      ELSE [ok |-> TRUE, table |-> tbl \cup {rec}]

\* lines 58-83: SELECT ... WHERE cert_id = ?, fetchone
get_certificate(tbl, id) ==
    IF RowsWithId(tbl, id) = {} THEN NoRecord ELSE CHOOSE r \in RowsWithId(tbl, id) : TRUE

LedgerAt(started) ==
    /\ certificates = {}
    /\ first_stored = [id \in CertIds |-> NoRecord]
    /\ last_call = [op |-> IF started THEN "init_db" ELSE "off", cert_id |-> "", result |-> "ok"]

LedgerOff == LedgerAt(FALSE)

\* line 31 of app.py: init_db() on an empty database
LedgerInit == LedgerAt(TRUE)

\* init_db at a later start of the program: CREATE TABLE IF NOT EXISTS
LInitDb ==
    /\ last_call.op # "init_db"
    /\ last_call' = [op |-> "init_db", cert_id |-> "", result |-> "ok"]
    /\ UNCHANGED <<certificates, first_stored>>

\* store_certificate, called at line 340 of app.py; sqlite3.connect or the INSERT
\* may raise, and then nothing is committed
LStore ==
    \E id \in CertIds : \E name \in RecipientNames :
        LET res == InsertRow(certificates, [cert_id |-> id, name |-> name])
        IN  /\ \/ /\ certificates' = res.table
                  /\ last_call' = [op |-> "store", cert_id |-> id,
                                   result |-> IF res.ok THEN "ok" ELSE "IntegrityError"]
               \/ /\ UNCHANGED certificates
                  /\ last_call' = [op |-> "store", cert_id |-> id, result |-> "OperationalError"]
            /\ UNCHANGED first_stored

\* get_certificate, called by verify_page and verify_api (lines 73, 99 of app.py)
LGet ==
    \E id \in CertIds :
        /\ last_call' = [op |-> "get", cert_id |-> id,
                         result |-> IF get_certificate(certificates, id) = NoRecord
                                      THEN "None" ELSE "record"]
        /\ first_stored' = IF first_stored[id] = NoRecord
                             THEN [first_stored EXCEPT ![id] = get_certificate(certificates, id)]
                             ELSE first_stored
        /\ UNCHANGED certificates

LedgerNext ==
    \/ LInitDb /\ UNCHANGED <<batchVars, matchVars, signVars, genVars, extractVars, concVars, exampleVars, pureVars>>
    \/ LStore /\ UNCHANGED <<batchVars, matchVars, signVars, genVars, extractVars, concVars, exampleVars, pureVars>>
    \/ LGet /\ UNCHANGED <<batchVars, matchVars, signVars, genVars, extractVars, concVars, exampleVars, pureVars>>

(***************************************************************************)
(* _detect_alignment: src/utils/certificate_generator.py 29-79.            *)
(* Lengths are in 1/1000 pt; the halves of lines 47 and 59 and the factors *)
(* 2.5 and 0.4 are cleared by multiplying both sides of each comparison.   *)
(***************************************************************************)
MaxSpans == 5

Abs(n) == IF n < 0 THEN 0 - n ELSE n

\* "{{" in span["text"]
HasOpeningBraces(text) ==
    \E i \in 1..(Len(text) - 1) : text[i] = "{" /\ text[i + 1] = "{"

\* line 73: tolerance = 5.0
Tolerance == 5000

\* The box of the marker the function is called for
AlignRect == [x0 |-> 100000, y0 |-> 200000, x1 |-> 220000, y1 |-> 224000]

\* The spans of the page: static text in the marker's band that starts within the
\* tolerance of the marker's x0, static text in the band that starts at the
\* tolerance, static text whose centre is at font_size * 2.5 from the marker's,
\* the span of the marker, and the closing part of a marker split over two spans
a_aligned == Span(<<"T", "o">>, 104999, 200000, 160000, 224000, 12000, 0, "Helvetica")
a_apart == Span(<<"T", "o">>, 105000, 180000, 160000, 224000, 12000, 0, "Helvetica")
a_far == Span(<<"T", "o">>, 100000, 250000, 160000, 274000, 12000, 0, "Helvetica")
a_marker == Span(<<"{", "{", "n", "a", "m", "e", "}", "}">>, 100000, 200000, 220000, 224000, 20000, 0, "Helvetica")
a_closing == Span(<<"m", "e", "}", "}">>, 95001, 151000, 220000, 174000, 20000, 0, "Helvetica")

AlignSpans == {a_aligned, a_apart, a_far, a_marker, a_closing}

\* The pages: an image block and one text block whose line holds the spans
AlignPages ==
    {<<ImageBlock, TextBlock(<<line>>)>> :
        line \in UNION {[1..n -> AlignSpans] : n \in 0..MaxSpans}}

\* lines 52-56: the spans of the text blocks, in the order of the loops
RECURSIVE LineSpans(_)
LineSpans(lines) == IF lines = <<>> THEN <<>> ELSE Head(lines) \o LineSpans(Tail(lines))

RECURSIVE PageSpans(_)
PageSpans(blocks) ==
    IF blocks = <<>> THEN <<>>
    ELSE IF Head(blocks).type # 0 THEN PageSpans(Tail(blocks))
    ELSE LineSpans(Head(blocks).lines) \o PageSpans(Tail(blocks))

\* line 66: abs(s_y_center - ph_y_center) < font_size * 2.5, both sides doubled
IsNearby(span, rect, font_size) ==
    Abs((span.bbox.y0 + span.bbox.y1) - (rect.y0 + rect.y1)) < 5 * font_size

\* lines 51-67: nearby_x0s
RECURSIVE NearbyX0s(_, _, _)
NearbyX0s(spans, rect, font_size) ==
    IF spans = <<>> THEN <<>>
    ELSE IF HasOpeningBraces(Head(spans).text) THEN NearbyX0s(Tail(spans), rect, font_size)
    ELSE IF IsNearby(Head(spans), rect, font_size)
           THEN <<Head(spans).bbox.x0>> \o NearbyX0s(Tail(spans), rect, font_size)
           ELSE NearbyX0s(Tail(spans), rect, font_size)

\* The test of line 76 if it were >=
ReachesShare(count, total) == count * 10 >= total * 4

\* line 76: left_aligned_count > len(nearby_x0s) * 0.4, both sides times 10
ExceedsShare(count, total) == count * 10 > total * 4

\* lines 45-79
_detect_alignment(page, placeholder_rect, font_size) ==
    LET nearby_x0s == NearbyX0s(PageSpans(page), placeholder_rect, font_size)
        left_aligned_count ==
            Len(SelectSeq(nearby_x0s, LAMBDA v : Abs(v - placeholder_rect.x0) < Tolerance))
    IN  IF nearby_x0s = <<>> THEN "left"
        ELSE IF ExceedsShare(left_aligned_count, Len(nearby_x0s)) THEN "left"
        ELSE "center"

AlignOff ==
    /\ al_pc = "off"
    /\ al_page = <<>>
    /\ al_rect = NoRect
    /\ al_font_size = 0
    /\ al_result = "none"


AlignInit ==
    /\ al_pc = "call"
    /\ al_page \in AlignPages
    /\ al_rect = AlignRect
    /\ al_font_size = 20000
    /\ al_result = "none"

\* line 122: alignment = _detect_alignment(page, rect, font_size)
DetectAlignment ==
    /\ al_pc = "call"
    /\ al_result' = _detect_alignment(al_page, al_rect, al_font_size)
    /\ al_pc' = "done"
    /\ UNCHANGED <<al_page, al_rect, al_font_size>>

AlignNext ==
    DetectAlignment /\ UNCHANGED <<batchVars, matchVars, signVars, genVars, extractVars, concVars, ledgerVars, exampleVars, fieldVars, issueVars, archiveVars>>

(***************************************************************************)
(* The fields that are signed: src/app.py 288-321.                         *)
(***************************************************************************)
MaxFieldCols == 3

\* line 293
NameAliases ==
    {<<"n", "a", "m", "e">>,
     <<"s", "t", "u", "d", "e", "n", "t">>,
     <<"r", "e", "c", "i", "p", "i", "e", "n", "t">>,
     <<"f", "u", "l", "l", "_", "n", "a", "m", "e">>}

\* line 295
CourseAliases ==
    {<<"c", "o", "u", "r", "s", "e">>,
     <<"s", "u", "b", "j", "e", "c", "t">>,
     <<"p", "r", "o", "g", "r", "a", "m">>,
     <<"c", "o", "u", "r", "s", "e", "_", "n", "a", "m", "e">>}

\* line 297
DateAliases ==
    {<<"d", "a", "t", "e">>,
     <<"i", "s", "s", "u", "e", "_", "d", "a", "t", "e">>,
     <<"c", "o", "m", "p", "l", "e", "t", "i", "o", "n", "_", "d", "a", "t", "e">>,
     <<"c", "e", "r", "t", "_", "d", "a", "t", "e">>}

c_date == <<"d", "a", "t", "e">>
c_date_padded == <<" ", "d", "a", "t", "e", " ">>
c_subject == <<"s", "u", "b", "j", "e", "c", "t">>

\* The column names the model draws from: aliases of each field, written as the
\* alias or in another case or padded, and names that are no alias
FieldColumnNames == {c_Name, c_name_padded, c_Course, c_subject, c_date, c_date_padded, c_names}

FieldCells == {StrVal(v_Ana), StrVal(v_blank), NaNVal}

\* generate_certificate_id() (crypto_utils.py 9-11), one value of it
a_cert_id == <<"i", "d">>

Unknown == <<"U", "n", "k", "n", "o", "w", "n">>

Dates == {<<"2", "0", "2", "6">>, <<"2", "0", "2", "7">>}

\* cert_data[f] = v
SetField(cd, f, v) == [g \in (DOMAIN cd) \cup {f} |-> IF g = f THEN v ELSE cd[g]]

\* str(row[col]).strip()
CellText(cell) == Strip(PyStr(cell))

\* lines 291-298: the for statement over df.columns, from column j on
RECURSIVE AliasLoop(_, _, _, _)
AliasLoop(cd, columns, row, j) ==
    IF j > Len(columns) THEN cd
    ELSE LET col_lower == Strip(Lower(columns[j]))
         IN  IF col_lower \in NameAliases
               THEN AliasLoop(SetField(cd, "name", CellText(row[j])), columns, row, j + 1)
             ELSE IF col_lower \in CourseAliases
               THEN AliasLoop(SetField(cd, "course", CellText(row[j])), columns, row, j + 1)
             ELSE IF col_lower \in DateAliases
               THEN AliasLoop(SetField(cd, "date", CellText(row[j])), columns, row, j + 1)
             ELSE AliasLoop(cd, columns, row, j + 1)

\* lines 301-306: one of the three if statements; position counts from 0
Positional(cd, f, position, columns, row) ==
    IF f \notin DOMAIN cd /\ Len(columns) > position
      THEN SetField(cd, f, CellText(row[position + 1]))
      ELSE cd

\* The defaults if they were not there
NoDefault(cd, f, v) == cd

\* lines 309-317: one of the three if statements
Default(cd, f, v) == IF f \notin DOMAIN cd THEN SetField(cd, f, v) ELSE cd

\* lines 290-317
CertData(columns, row, today, id) ==
    LET cd0 == AliasLoop([f \in {"cert_id"} |-> id], columns, row, 1)
        cd1 == Positional(cd0, "name", 0, columns, row)
        cd2 == Positional(cd1, "course", 1, columns, row)
        cd3 == Positional(cd2, "date", 2, columns, row)
        cd4 == Default(cd3, "date", today)
        cd5 == Default(cd4, "name", Unknown)
    IN  Default(cd5, "course", Unknown)

FieldsOff ==
    /\ fl_pc = "off"
    /\ fl_columns = <<>>
    /\ fl_row = <<>>
    /\ fl_today = <<>>
    /\ fl_cert_data = <<>>


\* A row of a data file with at least one column (line 272 reads the first one)
FieldsInit ==
    /\ fl_pc = "call"
    /\ fl_columns \in DistinctSeqs(FieldColumnNames, MaxFieldCols) \ {<<>>}
    /\ fl_row \in UNION {[1..n -> FieldCells] : n \in 1..MaxFieldCols}
    /\ Len(fl_row) = Len(fl_columns)
    /\ fl_today \in Dates
    /\ fl_cert_data = <<>>

\* lines 290-317
BuildCertData ==
    /\ fl_pc = "call"
    /\ fl_cert_data' = CertData(fl_columns, fl_row, fl_today, a_cert_id)
    /\ fl_pc' = "done"
    /\ UNCHANGED <<fl_columns, fl_row, fl_today>>

FieldsNext ==
    BuildCertData /\ UNCHANGED <<batchVars, matchVars, signVars, genVars, extractVars, concVars, ledgerVars, exampleVars, alignVars, issueVars, archiveVars>>

(***************************************************************************)
(* Issuing and verifying: src/app.py 319-348 and 96-128,                   *)
(* src/utils/database.py 35-83.                                            *)
(***************************************************************************)
\* The key of the running program, line 17
SECRET_KEY == <<"k">>

\* The tuples the rows of a batch give: names and courses with and without "|"
IssuedTuples ==
    {[name |-> n, course |-> c, date |-> <<"d">>, cert_id |-> id] :
        n \in {<<"a">>, <<"a", "|">>}, c \in {<<>>, <<"|">>}, id \in {<<"c", "1">>, <<"c", "2">>}}

NoCert == [cert_id |-> <<>>]

\* app.py 340-348 and database.py 40-52: the row that is inserted, by column (the
\* columns are TEXT and the values are strings, which SQLite keeps as they are)
CertificateRow(cd, sig, hash) ==
    [cert_id |-> cd.cert_id, recipient_name |-> cd.name, course_name |-> cd.course,
     issue_date |-> cd.date, signature |-> sig, data_hash |-> hash]

\* The dictionary of a row if name and course were read from each other's column
CertificateDictSwapped(row) ==
    [cert_id |-> row.cert_id, name |-> row.course_name, course |-> row.recipient_name,
     date |-> row.issue_date, signature |-> row.signature, data_hash |-> row.data_hash]

\* database.py 72-82: the dictionary get_certificate makes of a row
CertificateDict(row) ==
    [cert_id |-> row.cert_id, name |-> row.recipient_name, course |-> row.course_name,
     date |-> row.issue_date, signature |-> row.signature, data_hash |-> row.data_hash]

\* app.py 109-114: the tuple verify_api checks
VerifiedTuple(cert) ==
    [cert_id |-> cert.cert_id, name |-> cert.name, course |-> cert.course, date |-> cert.date]

IssueAt(p) ==
    /\ iss_pc = p
    /\ iss_cert_data = NoTuple
    /\ iss_signature = Sha256(<<>>)
    /\ iss_data_hash = Sha256(<<>>)
    /\ iss_table = {}
    /\ iss_cert = NoCert
    /\ iss_valid = FALSE

IssueOff == IssueAt("off")

\* The archive of a batch before the loop (line 264 has created it, empty)
ArchiveAt(p) ==
    /\ ar_pc = p
    /\ ar_idx = 0
    /\ ar_safe = <<>>
    /\ ar_zip = <<>>
    /\ ar_success_count = 0
    /\ ar_errors = {}

ArchiveOff == ArchiveAt("off") /\ ar_rows = <<>>

PureOff == AlignOff /\ FieldsOff /\ IssueOff /\ ArchiveOff

IssueInit == IssueAt("row")

\* lines 286-321: the next row's cert_data, signature and hash
ISign ==
    /\ iss_pc \in {"row", "verified"}
    /\ \E cd \in IssuedTuples :
        /\ iss_cert_data' = cd
        /\ iss_signature' = sign_certificate(cd, SECRET_KEY)
        /\ iss_data_hash' = compute_certificate_hash(cd)
    /\ iss_pc' = "signed"
    /\ UNCHANGED <<iss_table, iss_cert, iss_valid>>

\* lines 340-348: store_certificate; an id that is taken, or a database that cannot
\* be written, raises and the row has no record
IStore ==
    /\ iss_pc = "signed"
    /\ LET res == InsertRow(iss_table, CertificateRow(iss_cert_data, iss_signature, iss_data_hash))
       IN  \/ iss_table' = res.table
           \/ UNCHANGED iss_table
    /\ iss_pc' = "stored"
    /\ UNCHANGED <<iss_cert_data, iss_signature, iss_data_hash, iss_cert, iss_valid>>

\* line 99: cert = get_certificate(cert_id), for any id
IGet ==
    /\ iss_pc = "stored"
    /\ \E id \in {<<"c", "1">>, <<"c", "2">>} :
        iss_cert' = IF RowsWithId(iss_table, id) = {} THEN NoCert
                   ELSE CertificateDict(CHOOSE r \in RowsWithId(iss_table, id) : TRUE)
    /\ iss_pc' = "read"
    /\ UNCHANGED <<iss_cert_data, iss_signature, iss_data_hash, iss_table, iss_valid>>

\* lines 101-116: not found, or is_valid = verify_signature(...)
IVerify ==
    /\ iss_pc = "read"
    /\ iss_valid' = IF iss_cert = NoCert THEN FALSE
                   ELSE verify_signature(VerifiedTuple(iss_cert), iss_cert.signature, SECRET_KEY)
    /\ iss_pc' = "verified"
    /\ UNCHANGED <<iss_cert_data, iss_signature, iss_data_hash, iss_table, iss_cert>>

IssueNext ==
    \/ ISign /\ UNCHANGED <<batchVars, matchVars, signVars, genVars, extractVars, concVars, ledgerVars, exampleVars, alignVars, fieldVars, archiveVars>>
    \/ IStore /\ UNCHANGED <<batchVars, matchVars, signVars, genVars, extractVars, concVars, ledgerVars, exampleVars, alignVars, fieldVars, archiveVars>>
    \/ IGet /\ UNCHANGED <<batchVars, matchVars, signVars, genVars, extractVars, concVars, ledgerVars, exampleVars, alignVars, fieldVars, archiveVars>>
    \/ IVerify /\ UNCHANGED <<batchVars, matchVars, signVars, genVars, extractVars, concVars, ledgerVars, exampleVars, alignVars, fieldVars, archiveVars>>

(***************************************************************************)
(* The entries of the archive: src/app.py 264-367.                         *)
(***************************************************************************)
MaxArchiveRows == 2

\* First-column values: two that differ, one that sanitises to another, none
ArchiveValues == FirstColumnValues \cup {<<"A", "_", "a">>}

\* line 352: arcname=f"{safe}.pdf"
ArcName(safe) == safe \o <<".pdf">>

ArchiveInit ==
    /\ ArchiveAt("loop")
    /\ ar_rows \in UNION {[1..n -> ArchiveValues] : n \in 1..MaxArchiveRows}

\* lines 266-281: the next row and its file name, or the end of the loop
ANextRow ==
    /\ ar_pc = "loop"
    /\ IF ar_idx < Len(ar_rows)
         THEN /\ ar_safe' = SafeName(ar_rows[ar_idx + 1], ar_idx)
              /\ ar_pc' = "row"
         ELSE /\ ar_pc' = "done"
              /\ UNCHANGED ar_safe
    /\ UNCHANGED <<ar_rows, ar_idx, ar_zip, ar_success_count, ar_errors>>

\* lines 351-353: the file is there; zf.write adds an entry under arcname (ZipFile
\* appends an entry also when the name is already in the archive)
AWriteEntry ==
    /\ ar_pc = "row"
    /\ ar_zip' = Append(ar_zip, [arcname |-> ArcName(ar_safe), row |-> ar_idx])
    /\ ar_success_count' = ar_success_count + 1
    /\ ar_idx' = ar_idx + 1
    /\ ar_pc' = "loop"
    /\ UNCHANGED <<ar_rows, ar_safe, ar_errors>>

\* lines 360-367: no file, or an exception: the row has an error
ARowError ==
    /\ ar_pc = "row"
    /\ ar_errors' = ar_errors \cup {ar_idx}
    /\ ar_idx' = ar_idx + 1
    /\ ar_pc' = "loop"
    /\ UNCHANGED <<ar_rows, ar_safe, ar_zip, ar_success_count>>

ArchiveNext ==
    \/ ANextRow /\ UNCHANGED <<batchVars, matchVars, signVars, genVars, extractVars, concVars, ledgerVars, exampleVars, alignVars, fieldVars, issueVars>>
    \/ AWriteEntry /\ UNCHANGED <<batchVars, matchVars, signVars, genVars, extractVars, concVars, ledgerVars, exampleVars, alignVars, fieldVars, issueVars>>
    \/ ARowError /\ UNCHANGED <<batchVars, matchVars, signVars, genVars, extractVars, concVars, ledgerVars, exampleVars, alignVars, fieldVars, issueVars>>

(***************************************************************************)
(* A template through extract_placeholders and generate_certificate:       *)
(* src/app.py 237-253 and 327-337.                                         *)
(***************************************************************************)
\* The names whose marker the first page of the template shows
FirstPageKeys(tmpl) == Keys(ScanBlocks(<<>>, tmpl[1], {}))

\* The rows the certificates of a template are generated for
TemplateRows ==
    {<<[col |-> c_Name, val |-> v], [col |-> c_Course, val |-> w]>> :
        v \in {StrVal(v_Ana), StrVal(v_wide), NaNVal}, w \in {StrVal(v_Math), StrVal(<<>>)}}

\* app.py 237-253, 327-337: generate() passes the marker map extract_placeholders
\* returned to generate_certificate, which opens the same template and takes doc[0]
PassPlaceholders ==
    /\ e_pc = "done"
    /\ e_result = "returned"
    /\ e_placeholders # <<>>
    /\ g_pc = "off"
    /\ g_pc' = "open"
    /\ placeholders' = e_placeholders
    /\ row_data' \in TemplateRows
    /\ signature_path' \in BOOLEAN
    /\ verification_url' \in BOOLEAN
    /\ page_items' = {[kind |-> "marker", key |-> k] : k \in FirstPageKeys(template)}
    /\ UNCHANGED <<doc, warnings, g_col_lookup, mi, value, alignment, font_name, current_size,
                   text_width, shrinks, x, todo, ops, annots, saved, g_error, g_result>>

TemplateNext ==
    \/ ExtractNext
    \/ PassPlaceholders /\ UNCHANGED <<batchVars, matchVars, signVars, extractVars, concVars, ledgerVars, exampleVars, pureVars>>
    \/ GenNext

(***************************************************************************)
(* The specifications.                                                     *)
(***************************************************************************)
Init == BatchInit /\ MatchOff /\ SignOff /\ GenOff /\ ExtractOff /\ ConcOff /\ LedgerOff /\ ExampleOff /\ PureOff

Next == BatchNext

Spec == Init /\ [][Next]_vars

InitMatch == MatchInit /\ BatchOff /\ SignOff /\ GenOff /\ ExtractOff /\ ConcOff /\ LedgerOff /\ ExampleOff /\ PureOff

SpecMatch == InitMatch /\ [][MatchNext]_vars

InitSign == SignInit /\ BatchOff /\ MatchOff /\ GenOff /\ ExtractOff /\ ConcOff /\ LedgerOff /\ ExampleOff /\ PureOff

SpecSign == InitSign /\ [][SignNext]_vars

InitGen == GenInit /\ BatchOff /\ MatchOff /\ SignOff /\ ExtractOff /\ ConcOff /\ LedgerOff /\ ExampleOff /\ PureOff

SpecGen == InitGen /\ [][GenNext]_vars

InitExtract == ExtractInit /\ BatchOff /\ MatchOff /\ SignOff /\ GenOff /\ ConcOff /\ LedgerOff /\ ExampleOff /\ PureOff

SpecExtract == InitExtract /\ [][ExtractNext]_vars

InitConc == ConcInit /\ BatchOff /\ MatchOff /\ SignOff /\ GenOff /\ ExtractOff /\ LedgerOff /\ ExampleOff /\ PureOff

SpecConc == InitConc /\ [][ConcNext]_vars

InitLedger ==
    LedgerInit /\ BatchOff /\ MatchOff /\ SignOff /\ GenOff /\ ExtractOff /\ ConcOff /\ ExampleOff
        /\ PureOff

SpecLedger == InitLedger /\ [][LedgerNext]_vars

InitExample ==
    ExampleInit /\ MatchOff /\ SignOff /\ ExtractOff /\ ConcOff /\ LedgerOff /\ PureOff

SpecExample == InitExample /\ [][ExampleNext]_vars

InitAlign ==
    AlignInit /\ FieldsOff /\ IssueOff /\ ArchiveOff /\ BatchOff /\ MatchOff /\ SignOff /\ GenOff /\ ExtractOff /\ ConcOff
        /\ LedgerOff /\ ExampleOff

SpecAlign == InitAlign /\ [][AlignNext]_vars

InitFields ==
    FieldsInit /\ AlignOff /\ IssueOff /\ ArchiveOff /\ BatchOff /\ MatchOff /\ SignOff /\ GenOff /\ ExtractOff /\ ConcOff
        /\ LedgerOff /\ ExampleOff

SpecFields == InitFields /\ [][FieldsNext]_vars

InitIssue ==
    IssueInit /\ AlignOff /\ FieldsOff /\ ArchiveOff /\ BatchOff /\ MatchOff /\ SignOff /\ GenOff /\ ExtractOff
        /\ ConcOff /\ LedgerOff /\ ExampleOff

SpecIssue == InitIssue /\ [][IssueNext]_vars

SpecTemplate == InitExtract /\ [][TemplateNext]_vars

InitArchive ==
    ArchiveInit /\ AlignOff /\ FieldsOff /\ IssueOff /\ BatchOff /\ MatchOff /\ SignOff /\ GenOff
        /\ ExtractOff /\ ConcOff /\ LedgerOff /\ ExampleOff

SpecArchive == InitArchive /\ [][ArchiveNext]_vars

(***************************************************************************)
(* Claims about the request handlers, checked under Spec.                  *)
(***************************************************************************)
RowsOf(seq) == {seq[k] : k \in 1..Len(seq)}

ExceptionRows == {errors[k].row - 1 : k \in {j \in 1..Len(errors) : errors[j].msg = "exception"}}

\* C1: in the batch loop every data row is attempted exactly once and in source
\* order; an exception raised in row i is caught and recorded in errors, and the
\* rows after i are still processed (a request that entered the loop ends with all
\* nrows rows attempted and the loop left normally).
C1_EveryRowAttemptedInOrder ==
    /\ \A k \in 1..Len(attempted) : attempted[k] = k - 1
    /\ Len(attempted) <= nrows
    /\ raised = ExceptionRows
    /\ (pc = "done" /\ attempted # <<>>) => (Len(attempted) = nrows /\ loop_ran)

\* C1 witness: a finished batch in which a row raised and a later row succeeded
C1_Witness ==
    /\ pc = "done"
    /\ \E i \in raised : \E j \in RowsOf(archive) : j > i

C3_LedgerMatchesSuccesses ==
    (pc # "g_row") =>
        /\ {r.row : r \in ledger} = RowsOf(archive)
        /\ Cardinality(ledger) = success_count

\* C10: no error response of generate() or analyze() contains a traceback.
C10_NoTracebackInResponse ==
    /\ response.kind = "error" => "traceback" \notin response.parts
    /\ aresp.kind = "error" => "traceback" \notin aresp.parts

(***************************************************************************)
(* Claims about column matching, checked under SpecMatch.                  *)
(***************************************************************************)
\* The columns that are to match each marker, as the specification lists them:
\* "Name", "NAME", " name " (and "name") match "name"; "names" and "nam" match nothing
ExpectedColumns(key) ==
    IF key = k_name THEN {c_Name, c_NAME, c_name_padded, k_name}
    ELSE IF key = k_course THEN {c_Course, c_course_padded}
    ELSE {}

HasExpectedColumn(key) == \E i \in 1..Len(df_columns) : df_columns[i] \in ExpectedColumns(key)

\* C6: a column matches a marker iff its trimmed, lowercased name equals the marker
\* name exactly, in _compute_mapping and in col_lookup alike: a marker is matched
\* iff one of the columns is one that is to match it, the column reported for it
\* is such a column, and every other marker is reported unmatched.
C6_MatchIffTrimmedLowercasedEqual ==
    /\ m_pc \in {"mapped", "looked_up"} =>
        /\ \A k \in Range(placeholder_keys) :
            /\ (\E i \in 1..Len(matched) : matched[i].placeholder = k) <=> HasExpectedColumn(k)
            /\ k \in Range(unmatched) <=> ~HasExpectedColumn(k)
        /\ \A i \in 1..Len(matched) :
            matched[i].column \in ExpectedColumns(matched[i].placeholder) \cap Range(df_columns)
    /\ m_pc = "looked_up" =>
        \A k \in MarkerNames :
            /\ k \in DOMAIN col_lookup <=> HasExpectedColumn(k)
            /\ k \in DOMAIN col_lookup => df_columns[col_lookup[k]] \in ExpectedColumns(k)

\* C6 witness: " name " matched the marker name although "names" is a column too
C6_Witness ==
    /\ m_pc = "looked_up"
    /\ df_columns = <<c_names, c_name_padded>>
    /\ placeholder_keys = <<k_name>>
    /\ matched = <<[placeholder |-> k_name, column |-> c_name_padded]>>
    /\ col_lookup[k_name] = 2

(***************************************************************************)
(* Claims about signing, checked under SpecSign.                           *)
(***************************************************************************)
ChangedFields == {f \in Fields : presented[f] # cert_data[f]}

\* C8: verify_signature(T, sign_certificate(T, K), K) is true for every tuple T and
\* key K, and with any one field of T changed (signature and key kept) it is false.
C8_VerifyAcceptsSignedRejectsChanged ==
    s_pc = "verified" =>
        /\ ChangedFields = {} => is_valid
        /\ Cardinality(ChangedFields) = 1 => ~is_valid

\* C8 witness: a tuple with a "|" in a field, one field changed, was rejected
C8_Witness ==
    /\ s_pc = "verified"
    /\ cert_data.name = <<"a", "|">>
    /\ ChangedFields = {"course"}
    /\ presented.course = <<"|">>
    /\ ~is_valid

(***************************************************************************)
(* Claims about generate_certificate, checked under SpecGen.               *)
(***************************************************************************)
OpsAt(o, key) == {p \in 1..Len(ops) : ops[p].op = o /\ ops[p].key = key}

Applies == {p \in 1..Len(ops) : ops[p].op = "apply_redactions"}

Substituted == {k \in MarkerNames : OpsAt("insert_text", k) # {}}

MetaOf(key) == CHOOSE meta \in Range(placeholders) : meta.key = key

\* The marker's rectangle grown by one point on every side
Expanded(key) ==
    [x0 |-> MetaOf(key).rect.x0 - 1000, y0 |-> MetaOf(key).rect.y0 - 1000,
     x1 |-> MetaOf(key).rect.x1 + 1000, y1 |-> MetaOf(key).rect.y1 + 1000]

\* C4: for every marker that is substituted, the redaction of its rectangle
\* grown by one point is added and applied strictly before the replacement text
\* is inserted, and no insertion for a marker precedes that marker's redaction.
C4_RedactionCommittedBeforeInsert ==
    \A k \in MarkerNames :
        /\ \A p \in OpsAt("insert_text", k) :
            \E r \in OpsAt("add_redact_annot", k) : \E q \in Applies :
                /\ r < q /\ q < p
                /\ ops[r].rect = Expanded(k)
        /\ \A r \in OpsAt("add_redact_annot", k) : \A p \in OpsAt("insert_text", k) : r < p

\* C4 witness: a certificate returned with both markers substituted, the
\* replacement texts on the page and the marker texts gone
C4_Witness ==
    /\ g_result = "returned"
    /\ Substituted = {k_name, k_course}
    /\ page_items = {[kind |-> "value", key |-> k] : k \in MarkerNames}

\* The cells that are empty or "nan" after conversion to text and trimming
SkippedCells == {StrVal(<<>>), StrVal(v_blank), StrVal(v_nan), StrVal(v_NaN),
                 StrVal(v_NAN_padded), NaNVal}

HasSkippedCell(key) ==
    \E i \in 1..Len(row_data) :
        row_data[i].col \in ExpectedColumns(key) /\ row_data[i].val \in SkippedCells

InSubstitution == g_pc \in {"measure", "shrink", "place", "page"}

\* generate_certificate ended in the except clause of a marker
MarkerFailed == g_result = "raised" /\ "Failed to replace " \in Range(g_error)

\* C5: a marker whose matched value is empty or "nan" (any case) after conversion
\* to text and trimming is left untouched: no page call is made for it, its text
\* stays on the page, it never enters the substitution steps, and so no error is
\* raised for it.
C5_EmptyOrNanLeavesMarkerUntouched ==
    \A k \in Keys(placeholders) :
        HasSkippedCell(k) =>
            /\ \A p \in 1..Len(ops) : ops[p].key # k
            /\ [kind |-> "marker", key |-> k] \in page_items
            /\ [kind |-> "value", key |-> k] \notin page_items
            /\ ~(InSubstitution /\ CurrentKey = k)
            /\ MarkerFailed => CurrentKey # k

\* C5 witness: the name cell is " NAN ", the certificate is returned with the name
\* marker still on the page and the course substituted
C5_Witness ==
    /\ g_result = "returned"
    /\ Len(placeholders) = 2
    /\ placeholders[1].key = k_name
    /\ row_data[1] = [col |-> c_Name, val |-> StrVal(v_NAN_padded)]
    /\ Substituted = {k_course}
    /\ [kind |-> "marker", key |-> k_name] \in page_items

\* C7: the shrink loop takes at most 30 shrink steps, the font size is never
\* larger than the marker's font size, each step multiplies the size by 0.93, and
\* a step is taken only while the measured width exceeds the available width.
C7_ShrinkBoundedNeverGrows ==
    /\ [](/\ shrinks <= 30
          /\ InSubstitution => current_size <= placeholders[mi].font_size)
    /\ [][shrinks' = shrinks + 1 =>
            /\ text_width > max_width
            /\ current_size' = (current_size * 93) \div 100
            /\ current_size' <= current_size]_vars

\* C7 witness: the loop gave up after 30 shrink steps with the text still too wide
C7_Witness ==
    /\ g_pc = "place"
    /\ shrinks = 30
    /\ text_width > max_width
    /\ current_size > 0

(***************************************************************************)
(* Claims about the document handle, checked under SpecExtract.            *)
(***************************************************************************)
\* C9: a document opened by extract_placeholders or by generate_certificate is
\* closed on every exit path of that function, the raising ones included.
C9_DocumentClosedOnEveryExit ==
    /\ e_result # "none" => e_doc # "open"
    /\ g_result # "none" => doc # "open"

\* The text t occurs in the message msg
Mentions(msg, t) ==
    \E i \in 0..(Len(msg) - Len(t)) : SubSeq(msg, i + 1, i + Len(t)) = t

\* The markers after the current one in the marker map
LaterKeys == {placeholders[j].key : j \in (mi + 1)..Len(placeholders)}

\* C11: when the substitution of a marker fails, the error raised carries the name
\* of that marker, the markers after it are not processed and no output document
\* is saved.
C11_FailureTaggedWithMarkerAbortsRow ==
    MarkerFailed =>
        /\ Mentions(g_error, CurrentKey)
        /\ \A p \in 1..Len(ops) : ops[p].key \notin LaterKeys
        /\ ~saved

\* The part of C11 the code keeps: the failure ends the certificate
C11_FailureAbortsRow ==
    MarkerFailed =>
        /\ \A p \in 1..Len(ops) : ops[p].key \notin LaterKeys
        /\ ~saved
        /\ doc = "closed"

\* A step of an overlay, failed or not, raises nothing and goes on to what follows
OverlayStepGoesOn ==
    g_pc \in {"qr", "sig"} =>
        /\ g_result' = "none" /\ g_error' = g_error /\ doc' = "open"
        /\ g_pc = "qr" => g_pc' = "sig"
        /\ g_pc = "sig" => g_pc' = "save"

\* C12: a failure in the QR overlay or in the signature overlay never fails the
\* certificate: the step in which an overlay fails raises nothing, leaves the
\* document open and goes on, from the QR overlay to the signature overlay and
\* from the signature overlay to doc.save; after a QR failure the signature overlay
\* is still attempted whenever a signature image is given.
C12_OverlayFailureNeverFailsCertificate ==
    /\ [][OverlayStepGoesOn]_vars
    /\ [](g_result = "raised" => ~saved)
    /\ []((g_result = "returned") => saved)

\* C12 witness: both overlays failed, the document was saved and the function
\* returned
C12_Witness ==
    /\ g_result = "returned"
    /\ saved
    /\ warnings = <<"qr", "signature">>

(***************************************************************************)
(* Claims about concurrent requests, checked under SpecConc.               *)
(***************************************************************************)
InRow(b) == c_pc[b] \in {"generate", "check", "write", "remove", "except"}

\* C13: two generate() requests with different session ids never use the same
\* temporary file: their archive paths differ, the output document paths of the
\* rows they are working on differ, every document a request packages is one it
\* saved itself, and no request overwrites or removes a document the other saved.
C13_BatchesShareNoFile ==
    /\ c_pc[1] # "off" => ZipPath(c_sid[1]) # ZipPath(c_sid[2])
    /\ (InRow(1) /\ InRow(2)) => c_out_pdf[1] # c_out_pdf[2]
    /\ \A b \in Requests : \A k \in 1..Len(c_zip[b]) : c_zip[b][k].by = b
    /\ interfered = {}

\* The part of C13 the code keeps: the archive paths of the two requests differ
C13_ArchivePathsDiffer ==
    c_pc[1] # "off" => ZipPath(c_sid[1]) # ZipPath(c_sid[2])

(***************************************************************************)
(* Claims about input errors and fatal errors, checked under Spec.         *)
(***************************************************************************)
\* Something of the batch has happened: the archive path is set or the archive
\* exists, a row was entered, an id was generated, a record or an entry was written
BatchStarted ==
    \/ zip_path \/ zip_exists
    \/ attempted # <<>> \/ next_id > 0
    \/ ledger # {} \/ archive # <<>>

\* The messages generate() returns for input and extraction errors
InputErrorMessages ==
    {SessionExpiredMessage, ExtractFailedMessage, NoPlaceholdersMessage}
        \cup {LoadFailedMessage(load_data(file).msg) : file \in {f \in DataFiles : ~load_data(f).ok}}

\* C14: input and extraction errors are reported before the batch starts.  The
\* batch starts only with the session id of saved files, a data file that loads
\* and at least one marker; a request that ends with a missing or unknown session
\* id, a data file that does not load or no marker ends with an error response and
\* nothing processed; and an input or extraction error message is returned only
\* when no row was processed, no record inserted and no archive created.
C14_InputErrorsBeforeBatchStarts ==
    /\ BatchStarted => (sid = "s1" /\ placeholders_n > 0 /\ load_data(data_file).ok)
    /\ (pc = "done" /\ (sid # "s1" \/ placeholders_n = 0 \/ ~load_data(data_file).ok))
           => (response.kind = "error" /\ ~BatchStarted)
    /\ (response.kind = "error" /\ response.msg \in InputErrorMessages) => ~BatchStarted

\* C14 witness: the data file loaded, but the template has no marker
C14_Witness ==
    /\ pc = "done"
    /\ sid = "s1"
    /\ nrows >= 1
    /\ response = ErrorResponse(400, {"message"}, NoPlaceholdersMessage)
    /\ ~BatchStarted

\* C15 as stated: after a fatal error the archive is gone when the error response
\* is returned.
C15_FatalRemovesArchive ==
    (pc = "done" /\ fatal) => (response.kind = "error" /\ ~zip_exists)

\* C15 amended: after a fatal error the error response is returned and the archive
\* is gone unless os.remove itself raised, which the handler ignores.
C15_FatalRemovesArchiveUnlessRemoveFails ==
    /\ (pc = "done" /\ fatal) => (response.kind = "error" /\ (zip_exists => remove_failed))
    /\ remove_failed => fatal

\* C15 witness: a fatal error after rows were written into the archive, and the
\* archive removed
C15_Witness ==
    /\ pc = "done" /\ fatal
    /\ archive # <<>>
    /\ zip_path /\ ~zip_exists /\ ~remove_failed

\* The rows of the data file that are not fully empty
RECURSIVE NotFullyEmpty(_)
NotFullyEmpty(rows) ==
    IF rows = <<>> THEN <<>>
    ELSE IF \A j \in 1..Len(Head(rows)) : Head(rows)[j] = NaNVal
      THEN NotFullyEmpty(Tail(rows))
    ELSE <<Head(rows)>> \o NotFullyEmpty(Tail(rows))

\* C17: load_data never returns an empty row sequence.  For every file it has read,
\* its result has at least one row, and when the file parses and has no row left
\* once the fully-empty rows are dropped it raises the "no rows" ValueError;
\* analyze() and generate() report it, and generate() has processed no row then; a
\* batch only ever runs on at least one row.
C17_LoadNeverReturnsNoRows ==
    /\ data_file # NoDataFile =>
        /\ load_data(data_file).ok => Len(load_data(data_file).rows) >= 1
        /\ (Parses(data_file) /\ NotFullyEmpty(data_file.rows) = <<>>)
               => (~load_data(data_file).ok /\ load_data(data_file).msg = NoRowsMessage)
    /\ pc \in {"g_check", "g_zip", "g_loop", "g_row", "g_close"} => nrows >= 1
    /\ BatchStarted => nrows >= 1
    /\ (pc = "g_start" /\ data_file # NoDataFile /\ Parses(data_file)
          /\ NotFullyEmpty(data_file.rows) = <<>>)
           => aresp = ErrorResponse(400, {"message"}, NoRowsMessage)
    /\ (pc = "done" /\ sid = "s1" /\ Parses(data_file) /\ NotFullyEmpty(data_file.rows) = <<>>)
           => (/\ response.kind = "error"
               /\ response.msg \in {LoadFailedMessage(NoRowsMessage), ExtractFailedMessage}
               /\ ~BatchStarted)

\* C17 witness: generate() found a data file with fully-empty rows only and
\* reported the "no rows" error
C17_Witness ==
    /\ pc = "done"
    /\ Len(data_file.rows) >= 2
    /\ response = ErrorResponse(500, {"message"}, LoadFailedMessage(NoRowsMessage))
    /\ ~BatchStarted

(***************************************************************************)
(* Claims about the certificates table, checked under SpecLedger.          *)
(***************************************************************************)
\* A call on the table keeps every row as it is
KeepsEveryRow == \A r \in certificates : r \in certificates'

\* A store on a key that is taken fails and changes nothing
RefusesTakenKey ==
    (last_call'.op = "store" /\ RowsWithId(certificates, last_call'.cert_id) # {}) =>
        (last_call'.result # "ok" /\ certificates' = certificates)

\* C18: the ledger is append-only.  No call updates or deletes a row, a store with
\* a cert_id that exists fails and leaves the table as it is, there is at most one
\* row per cert_id, and get_certificate(id) returns the record it returned first
\* after any later calls.
C18_LedgerAppendOnly ==
    /\ [][KeepsEveryRow /\ RefusesTakenKey]_vars
    /\ [](\A id \in CertIds :
            /\ Cardinality(RowsWithId(certificates, id)) <= 1
            /\ first_stored[id] # NoRecord => get_certificate(certificates, id) = first_stored[id])

\* C18 witness: a second store with the cert_id of a record that had been read back
\* was refused
C18_Witness ==
    /\ last_call = [op |-> "store", cert_id |-> "c1", result |-> "IntegrityError"]
    /\ first_stored["c1"] = [cert_id |-> "c1", name |-> v_Ana]
    /\ Cardinality(certificates) = 3

(***************************************************************************)
(* Claims about the two-row batch, checked under SpecExample.              *)
(***************************************************************************)
\* The first page of row k's certificate as the specification describes it
ExpectedPage(k) ==
    IF k = 1
      THEN {[kind |-> "value", key |-> k_name], [kind |-> "value", key |-> k_course]}
      ELSE {[kind |-> "marker", key |-> k_name], [kind |-> "value", key |-> k_course]}

NotCreatedRows == {errors[k].row - 1 : k \in {j \in 1..Len(errors) : errors[j].msg = "PDF not created"}}

\* C16: with the markers name and course and the rows {Name: "Ana", Course: "Math"}
\* and {Name: empty, Course: "Bio"}, every row counted as a success has the
\* expected page (row 1 both values, row 2 the name marker left and the course
\* value), every row ends as a success or as an error, and when nothing raises and
\* no saved file is missing the batch ends with 2 successes and 0 failures: the
\* empty value of row 2 does not make the row fail.
C16_EmptyValueRowStillSucceeds ==
    /\ \A k \in 1..Len(ex_pages) : (k - 1) \in RowsOf(archive) => ex_pages[k] = ExpectedPage(k)
    /\ Len(archive) = success_count
    /\ pc = "g_close" => success_count + Len(errors) = 2
    /\ (pc = "g_close" /\ raised = {} /\ NotCreatedRows = {})
           => (success_count = 2 /\ errors = <<>>)

\* C16 witness: the batch ended with 2 successes and 0 failures, the empty Name
\* cell of row 2 having come out of load_data as "nan"
C16_Witness ==
    /\ pc = "g_close"
    /\ ex_df[2][1] = StrVal(v_nan)
    /\ success_count = 2
    /\ errors = <<>>
    /\ ex_pages = <<ExpectedPage(1), ExpectedPage(2)>>

(***************************************************************************)
(* Claims about the scan of extract_placeholders, checked under SpecExtract.*)
(***************************************************************************)
\* The pages the scan has gone through
ScannedPages == IF e_page = 0 THEN 0 ELSE e_page - 1

LineAt(o) == template[o.page][o.block].lines[o.line]

\* Every marker token of the first n pages: where it stands and its match
Occurrences(n) ==
    UNION {UNION {UNION {
        {[page |-> pg, block |-> b, line |-> l,
          match |-> finditer(FullLineText(template[pg][b].lines[l]), 0)[k]] :
            k \in 1..Len(finditer(FullLineText(template[pg][b].lines[l]), 0))} :
        l \in 1..Len(template[pg][b].lines)} :
        b \in {bb \in 1..Len(template[pg]) : template[pg][bb].type = 0}} :
        pg \in 1..n}

KeyOf(o) == Lower(o.match.group)

\* Scan order: pages, then blocks, then lines, then matches within the line
Before(o1, o2) ==
    \/ o1.page < o2.page
    \/ o1.page = o2.page /\ o1.block < o2.block
    \/ o1.page = o2.page /\ o1.block = o2.block /\ o1.line < o2.line
    \/ o1.page = o2.page /\ o1.block = o2.block /\ o1.line = o2.line
          /\ o1.match.start <= o2.match.start

FirstOccurrence(key, n) ==
    CHOOSE o \in Occurrences(n) :
        KeyOf(o) = key /\ \A o2 \in Occurrences(n) : KeyOf(o2) = key => Before(o, o2)

RecordOfOccurrence(o) ==
    MarkerRecord(KeyOf(o), SelectSeq(SpanMap(LineAt(o), 0), LAMBDA sm : Overlaps(sm, o.match)),
                 registered_fonts)

RecordsKept ==
    \A i \in 1..Len(e_placeholders) :
        i <= Len(e_placeholders') /\ e_placeholders'[i] = e_placeholders[i]

\* Each name recorded once, with the record of its first occurrence, and every
\* name of a scanned page recorded
FirstRecorded ==
    /\ \A i, j \in 1..Len(e_placeholders) :
          e_placeholders[i].key = e_placeholders[j].key => i = j
    /\ \A i \in 1..Len(e_placeholders) :
          /\ \E o \in Occurrences(ScannedPages) : KeyOf(o) = e_placeholders[i].key
          /\ e_placeholders[i] =
                RecordOfOccurrence(FirstOccurrence(e_placeholders[i].key, ScannedPages))
    /\ \A o \in Occurrences(ScannedPages) : KeyOf(o) \in Keys(e_placeholders)

\* C19: every marker name is recorded at most once, its record is the one of its
\* first occurrence in scan order (pages, blocks, lines, matches within a line),
\* every name that occurs on a scanned page is recorded, and no step replaces or
\* alters a record once it is made.
C19_FirstOccurrenceWins == [][RecordsKept]_vars /\ []FirstRecorded

\* C19 witness: the name marker stands on page 1 and, in another case and another
\* style, on page 2; the function returned the record of page 1
C19_Witness ==
    /\ e_result = "returned"
    /\ template = << <<TextBlock(<<l_plain, l_name>>)>>, <<TextBlock(<<l_again>>)>> >>
    /\ Len(e_placeholders) = 1
    /\ e_placeholders[1].key = k_name
    /\ e_placeholders[1].rect = s_name.bbox
    /\ e_placeholders[1].font_size = s_name.size

\* The offset in the line's text at which span j starts
SpanStart(spans, j) == Len(FullLineText(SubSeq(spans, 1, j - 1)))

\* The spans of the line of o whose [start, end) meets the span of the match
Contributing(o) ==
    {j \in 1..Len(LineAt(o)) :
        /\ SpanStart(LineAt(o), j) < o.match.end
        /\ SpanStart(LineAt(o), j) + Len(LineAt(o)[j].text) > o.match.start}

\* The record rec is made from the occurrence o as the claim says
MadeFrom(rec, o) ==
    LET spans == LineAt(o)
        J == Contributing(o)
    IN  /\ J # {}
        /\ KeyOf(o) = rec.key
        /\ \E j \in J : rec.rect.x0 = spans[j].bbox.x0
        /\ \E j \in J : rec.rect.y0 = spans[j].bbox.y0
        /\ \E j \in J : rec.rect.x1 = spans[j].bbox.x1
        /\ \E j \in J : rec.rect.y1 = spans[j].bbox.y1
        /\ \A j \in J : /\ rec.rect.x0 <= spans[j].bbox.x0
                         /\ rec.rect.y0 <= spans[j].bbox.y0
                         /\ rec.rect.x1 >= spans[j].bbox.x1
                         /\ rec.rect.y1 >= spans[j].bbox.y1
        /\ \E j \in J :
              /\ \A j2 \in J : j <= j2
              /\ rec.font_size = spans[j].size
              /\ rec.color = <<(spans[j].color \div 65536) % 256,
                               (spans[j].color \div 256) % 256, spans[j].color % 256>>
              /\ rec.embedded_font = spans[j].font
              /\ rec.font_name = _pick_font(spans[j].font, registered_fonts)

\* C20: the rectangle of every extracted marker is the coordinate-wise union (min x0,
\* min y0, max x1, max y1) of the boxes of exactly those spans of its line whose
\* [start, end) overlaps the span of the match, and font size, colour and font name
\* come from the first of those spans, also when the token straddles several spans.
C20_RectUnionStyleFromFirstRun ==
    \A i \in 1..Len(e_placeholders) :
        \E o \in Occurrences(ScannedPages) : MadeFrom(e_placeholders[i], o)

\* C20 witness: both markers of the line To {{Na | me}} {{ | course}} straddle two
\* spans; name has the box of the first two spans and the style of the first,
\* course the box of the last two and the style of the second
C20_Witness ==
    /\ e_result = "returned"
    /\ template = << <<TextBlock(<<l_split>>)>> >>
    /\ registered_fonts = {"Garet-Bold"}
    /\ e_placeholders =
          <<[key |-> k_name,
             rect |-> [x0 |-> 60000, y0 |-> 200000, x1 |-> 240000, y1 |-> 224000],
             font_size |-> 12000, font_name |-> "helv", color |-> <<0, 0, 0>>,
             embedded_font |-> "Helvetica"],
            [key |-> k_course,
             rect |-> [x0 |-> 140000, y0 |-> 200000, x1 |-> 300000, y1 |-> 224000],
             font_size |-> 20000, font_name |-> "Garet-Bold", color |-> <<192, 0, 0>>,
             embedded_font |-> "AAAAAA+Garet-Bold"]>>

(***************************************************************************)
(* Claims about _detect_alignment, checked under SpecAlign.                *)
(***************************************************************************)
AlignLine == al_page[2].lines[1]

\* The spans that do not hold the opening braces of a marker and whose vertical
\* centre is less than font_size * 2.5 from the marker's
NearbyRuns ==
    {i \in 1..Len(AlignLine) :
        /\ ~HasOpeningBraces(AlignLine[i].text)
        /\ Abs((AlignLine[i].bbox.y0 + AlignLine[i].bbox.y1) - (al_rect.y0 + al_rect.y1))
               < 5 * al_font_size}

\* Those of them that start less than 5 pt from the marker's x0
AlignedRuns == {i \in NearbyRuns : Abs(AlignLine[i].bbox.x0 - al_rect.x0) < 5000}

TwiceCentred ==
    2 * CurrentMeta.rect.x0 + ((CurrentMeta.rect.x1 - CurrentMeta.rect.x0) - text_width)

\* The marker's page calls are being made
Placed == g_pc = "page" /\ g_result = "none"

\* C22: the anchor is the marker's x0 when alignment is "left"; when it is "center"
\* it is x0 + (rect width - text width) / 2 (here rounded down to 1/1000 pt), unless
\* that is left of the page or the text would end right of the page, and then it is
\* the marker's x0.  The text width is the one measured at the size after shrinking.
C22_AnchorLeftOrCentredWithinPage ==
    Placed =>
        /\ text_width = get_text_length(value, current_size)
        /\ IF \/ alignment = "left"
              \/ TwiceCentred < 0
              \/ TwiceCentred + 2 * text_width > 2 * page_width
             THEN x = CurrentMeta.rect.x0
             ELSE 2 * x <= TwiceCentred /\ TwiceCentred < 2 * x + 2

\* C22 witness: a text that was shrunk is centred in the marker's rectangle, right
\* of the marker's x0
C22_Witness ==
    /\ Placed
    /\ alignment = "center"
    /\ shrinks > 0
    /\ x > CurrentMeta.rect.x0
    /\ 2 * x + text_width <= 2 * page_width

\* The font used for the marker after its first measurement
FontInUse ==
    IF CurrentMeta.font_name \in MeasurableFonts THEN CurrentMeta.font_name ELSE "Helvetica"

\* One step of the measurement whose first try fails
MeasureFallsBack ==
    (g_pc = "measure" /\ font_name \notin MeasurableFonts /\ g_pc' # "measure") =>
        /\ font_name' = "Helvetica"
        /\ \/ g_pc' = "shrink" /\ text_width' = get_text_length(value, current_size)
           \/ g_pc' = "done" /\ g_result' = "raised" /\ saved' = FALSE /\ ops' = ops

AliasColumns(aliases) ==
    {j \in 1..Len(fl_columns) : Strip(Lower(fl_columns[j])) \in aliases}

\* The value of a field as the claim gives it: from an alias column, else from the
\* column at the position (counted from 0), else the default
FieldFrom(f, aliases, position, default) ==
    IF AliasColumns(aliases) # {}
      THEN \E j \in AliasColumns(aliases) : fl_cert_data[f] = Strip(PyStr(fl_row[j]))
      ELSE IF Len(fl_columns) > position
        THEN fl_cert_data[f] = Strip(PyStr(fl_row[position + 1]))
        ELSE fl_cert_data[f] = default

\* C24: each of name, course and date comes from a column whose lowercased, trimmed
\* name is a known alias when there is one, otherwise from the column at position
\* 0, 1 or 2 when it exists, otherwise it is the default ("Unknown", or the current
\* date); cert_data has exactly the fields name, course, date and cert_id.
C24_FieldsFromAliasPositionOrDefault ==
    fl_pc = "done" =>
        /\ DOMAIN fl_cert_data = {"name", "course", "date", "cert_id"}
        /\ fl_cert_data["cert_id"] = a_cert_id
        /\ FieldFrom("name", NameAliases, 0, Unknown)
        /\ FieldFrom("course", CourseAliases, 1, Unknown)
        /\ FieldFrom("date", DateAliases, 2, fl_today)

\* C24 witness: the single column is an alias of course; name falls back to
\* column 0, course comes from the alias, date is the current date
C24_Witness ==
    /\ fl_pc = "done"
    /\ fl_columns = <<c_subject>>
    /\ fl_row = <<StrVal(v_Ana)>>
    /\ fl_cert_data["name"] = v_Ana
    /\ fl_cert_data["course"] = v_Ana
    /\ fl_cert_data["date"] = fl_today

(***************************************************************************)
(* Claims about the counters and the archive of a batch, checked under     *)
(* Spec.                                                                   *)
(***************************************************************************)
ErrorRows == {errors[k].row - 1 : k \in 1..Len(errors)}

\* C25: at the end of every iteration of the batch loop success_count plus the
\* number of errors is the number of rows processed so far; every processed row is
\* either written into the archive once or has one error, never both and never
\* neither, and a row that is being processed has neither yet.
C25_OneSuccessOrOneErrorPerRow ==
    (pc \in {"g_loop", "g_row", "g_close"}) =>
        /\ success_count + Len(errors) = idx
        /\ success_count = Len(archive)
        /\ RowsOf(archive) \cap ErrorRows = {}
        /\ RowsOf(archive) \cup ErrorRows = 0..(idx - 1)

\* C25 witness: after three rows, one success between two errors of both kinds
C25_Witness ==
    /\ pc = "g_loop"
    /\ idx = 3
    /\ success_count = 1
    /\ archive = <<1>>
    /\ Len(errors) = 2
    /\ errors[1].msg = "exception" /\ errors[2].msg = "PDF not created"

\* C30: whenever generate() has ended with an error response, no archive of the
\* session is on disk.
C30_NoArchiveAfterErrorResponse ==
    (pc = "done" /\ response.kind = "error") => ~zip_exists

\* The archive that stays after an error response: either every row failed and the
\* function returned at line 396, or the handler's os.remove failed
ArchiveLeftWhy ==
    (pc = "done" /\ response.kind = "error" /\ zip_exists) =>
        \/ loop_ran /\ success_count = 0 /\ ~fatal
        \/ fatal /\ remove_failed

(***************************************************************************)
(* Claims about issued certificates, checked under SpecIssue.              *)
(***************************************************************************)
\* C26: every record generate() wrote verifies as valid: verify_signature on the
\* fields cert_id, name, course and date that get_certificate reads back, with the
\* stored signature and the same key, is true, and these fields are the tuple that
\* was signed.
C26_IssuedCertificateVerifies ==
    /\ \A row \in iss_table :
          /\ verify_signature(VerifiedTuple(CertificateDict(row)), row.signature, SECRET_KEY)
          /\ VerifiedTuple(CertificateDict(row)) \in IssuedTuples
          /\ row.signature = sign_certificate(VerifiedTuple(CertificateDict(row)), SECRET_KEY)
    /\ (iss_pc = "verified" /\ iss_cert # NoCert) => iss_valid
    /\ (iss_pc \in {"stored", "read", "verified"}
           /\ CertificateRow(iss_cert_data, iss_signature, iss_data_hash) \in iss_table)
          => \E row \in iss_table : VerifiedTuple(CertificateDict(row)) = iss_cert_data

\* C26 witness: with two records in the table, the one with a "|" in its name was
\* read back and verified as valid
C26_Witness ==
    /\ iss_pc = "verified"
    /\ Cardinality(iss_table) = 2
    /\ iss_cert # NoCert
    /\ iss_cert.name = <<"a", "|">>
    /\ iss_valid

(***************************************************************************)
(* Claims about the archive of a batch, checked under SpecArchive.         *)
(***************************************************************************)
\* The archive has one entry for each successful row
OneEntryPerSuccess ==
    /\ Len(ar_zip) = ar_success_count
    /\ \A i, j \in DOMAIN ar_zip : i # j => ar_zip[i].row # ar_zip[j].row

\* C27: within one batch every successful row gets an archive entry name of its own,
\* also when the first-column values of two rows are equal or sanitise to the same
\* text, so that the archive holds success_count documents under distinct names.
C27_DistinctArchiveEntryNames ==
    /\ \A i, j \in DOMAIN ar_zip : i # j => ar_zip[i].arcname # ar_zip[j].arcname
    /\ Cardinality({ar_zip[i].arcname : i \in DOMAIN ar_zip}) = ar_success_count

(***************************************************************************)
(* Claims about the canonical encoding, checked under SpecSign.            *)
(***************************************************************************)
\* C28: the canonical encoding is injective: two different tuples (name, course,
\* date, cert_id) never give the same pipe-joined string, and so never the same
\* content hash or the same signature under one key, also when fields hold "|";
\* a tuple other than the signed one is not verified with its signature.
C28_CanonicalEncodingInjective ==
    presented # cert_data =>
        /\ Canonical(presented) # Canonical(cert_data)
        /\ compute_certificate_hash(presented) # compute_certificate_hash(cert_data)
        /\ sign_certificate(presented, secret_key) # sign_certificate(cert_data, secret_key)
        /\ s_pc = "verified" => ~is_valid

(***************************************************************************)
(* Claims about a template taken through both functions, checked under     *)
(* SpecTemplate.                                                           *)
(***************************************************************************)
\* C29: generate_certificate redacts and writes on the first page only where a marker
\* appears on the first page: no add_redact_annot and no insert_text is made for a
\* marker that the template shows on a later page only.
C29_FirstPageCallsOnlyForFirstPageMarkers ==
    g_pc # "off" =>
        \A p \in 1..Len(ops) :
            (ops[p].op \in {"add_redact_annot", "insert_text"} /\ ops[p].key \in Keys(placeholders))
                => ops[p].key \in FirstPageKeys(template)

====
